---- MODULE Spec2Model ----
(***************************************************************************)
(* Quiz Master: the bulk question parser and creation wizard               *)
(* (app/create/page.tsx), the dual-store persistence adapter               *)
(* (utils/supabase.ts, quizService) and the quiz-taking page               *)
(* (app/quiz/[id]/page.tsx).                                               *)
(*                                                                         *)
(* Strings of the program are sequences of one-character strings, so that  *)
(* trim, split, includes, endsWith and the regular-expression replacements *)
(* are computed character by character as the JavaScript code computes     *)
(* them.                                                                   *)
(***************************************************************************)
EXTENDS Integers, Sequences, FiniteSets, TLC

\* ------------------------------------------------------------------------
\* Characters and string helpers
\* ------------------------------------------------------------------------

\* The one-element stand-in for U+2713 (check mark).
CheckMark == "<check>"

NL == "\n"

\* \s of the regular expressions and the set String.prototype.trim removes.
IsSpace(c) == c \in {" ", "\n", "\t", "\r"}

\* \d
IsDigit(c) == c \in {"0", "1", "2", "3", "4", "5", "6", "7", "8", "9"}

\* [A-Da-d0-9]
IsOptionEnumChar(c) == IsDigit(c) \/ c \in {"A", "B", "C", "D", "a", "b", "c", "d"}

\* [\.\)]
IsEnumPunct(c) == c \in {".", ")"}

\* The literal '(correct)'.
CorrectLiteral == <<"(", "c", "o", "r", "r", "e", "c", "t", ")">>

Drop(s, n) == IF n >= Len(s) THEN <<>> ELSE SubSeq(s, n + 1, Len(s))

Take(s, n) == IF n >= Len(s) THEN s ELSE SubSeq(s, 1, n)

RECURSIVE TrimStart(_)
TrimStart(s) ==
  IF s # <<>> /\ IsSpace(Head(s)) THEN TrimStart(Tail(s)) ELSE s

RECURSIVE TrimEnd(_)
TrimEnd(s) ==
  IF s # <<>> /\ IsSpace(s[Len(s)]) THEN TrimEnd(SubSeq(s, 1, Len(s) - 1)) ELSE s

\* String.prototype.trim
Trim(s) == TrimEnd(TrimStart(s))

\* s.startsWith(p)
StartsWith(s, p) == Len(s) >= Len(p) /\ SubSeq(s, 1, Len(p)) = p

\* s.includes(p)
Includes(s, p) ==
  \E i \in 1..(Len(s) - Len(p) + 1) : SubSeq(s, i, i + Len(p) - 1) = p

\* s.endsWith(c) for a one-character c
EndsWithChar(s, c) == s # <<>> /\ s[Len(s)] = c

\* s.split('\n'): the pieces between line feeds, empty pieces included.
RECURSIVE SplitOnNL(_, _)
SplitOnNL(s, cur) ==
  IF s = <<>> THEN <<cur>>
  ELSE IF Head(s) = NL THEN <<cur>> \o SplitOnNL(Tail(s), <<>>)
       ELSE SplitOnNL(Tail(s), Append(cur, Head(s)))

\* Length of the longest prefix of s made of whitespace (the most \s* takes).
RECURSIVE SpaceRun(_)
SpaceRun(s) ==
  IF s # <<>> /\ IsSpace(Head(s)) THEN 1 + SpaceRun(Tail(s)) ELSE 0

\* Position of the last line feed among the first n characters of s, 0 if none.
RECURSIVE LastNL(_, _)
LastNL(s, n) ==
  IF n = 0 THEN 0 ELSE IF s[n] = NL THEN n ELSE LastNL(s, n - 1)

\* Variant: the separator is two adjacent line feeds only (/\n\n/).
BlockSepLenExact(s) ==
  IF Len(s) >= 2 /\ s[1] = NL /\ s[2] = NL THEN 2 ELSE 0

\* Length of the match of /\n\s*\n+/ at the start of s, 0 when it does not
\* match there: a line feed, then the whitespace run that follows it, given
\* back until it ends in a line feed.
BlockSepLen(s) ==
  IF s = <<>> \/ Head(s) # NL THEN 0
  ELSE LET rest == Tail(s)
           k == LastNL(rest, SpaceRun(rest))
       IN IF k = 0 THEN 0 ELSE 1 + k

\* bulkText.split(/\n\s*\n+/): leftmost matches, pieces between them.
RECURSIVE SplitBlocksFrom(_, _)
SplitBlocksFrom(s, cur) ==
  IF s = <<>> THEN <<cur>>
  ELSE LET m == BlockSepLen(s)
       IN IF m > 0 THEN <<cur>> \o SplitBlocksFrom(Drop(s, m), <<>>)
          ELSE SplitBlocksFrom(Tail(s), Append(cur, Head(s)))

NonBlank(s) == Len(Trim(s)) > 0

NonEmpty(s) == Len(s) > 0

\* bulkText.split(/\n\s*\n+/).filter(block => block.trim().length > 0)
QuestionBlocks(text) == SelectSeq(SplitBlocksFrom(text, <<>>), NonBlank)

\* block.split('\n').map(line => line.trim()).filter(line => line.length > 0)
BlockLines(block) ==
  LET raw == SplitOnNL(block, <<>>)
      trimmed == [i \in 1..Len(raw) |-> Trim(raw[i])]
  IN SelectSeq(trimmed, NonEmpty)

RECURSIVE DigitRun(_)
DigitRun(s) ==
  IF s # <<>> /\ IsDigit(Head(s)) THEN 1 + DigitRun(Tail(s)) ELSE 0

\* lines[0].replace(/^\d+[\.\)]\s*/, '').trim()
QuestionTextOf(line) ==
  LET d == DigitRun(line)
  IN IF d >= 1 /\ Len(line) > d /\ IsEnumPunct(line[d + 1])
     THEN Trim(Drop(line, d + 1))
     ELSE Trim(line)

\* line.replace(/^[A-Da-d0-9][\.\)]\s*/, '').trim()
OptionTextOf(line) ==
  IF Len(line) >= 2 /\ IsOptionEnumChar(line[1]) /\ IsEnumPunct(line[2])
  THEN Trim(Drop(line, 2))
  ELSE Trim(line)

\* options[i].includes('(correct)') || options[i].includes('*') ||
\* options[i].endsWith(check mark)
HasMarker(opt) ==
  \/ Includes(opt, CorrectLiteral)
  \/ Includes(opt, <<"*">>)
  \/ EndsWithChar(opt, CheckMark)

\* opt.replace(/\(correct\)|\*|<check mark>/g, ''): one pass, left to right.
RECURSIVE RemoveMarkers(_)
RemoveMarkers(s) ==
  IF s = <<>> THEN <<>>
  ELSE IF StartsWith(s, CorrectLiteral) THEN RemoveMarkers(Drop(s, Len(CorrectLiteral)))
  ELSE IF Head(s) \in {"*", CheckMark} THEN RemoveMarkers(Tail(s))
  ELSE <<Head(s)>> \o RemoveMarkers(Tail(s))

\* Variant: the loop without its break, the last option with a marker wins.
RECURSIVE ScanCorrectNoBreak(_, _)
ScanCorrectNoBreak(options, i) ==
  IF i > Len(options) THEN 0
  ELSE LET later == ScanCorrectNoBreak(options, i + 1)
       IN IF later > 0 THEN later
          ELSE IF HasMarker(options[i]) THEN i - 1 ELSE 0

\* The for loop over options: the index (0-based) of the first option with a
\* marker, from position i on; 0 when the loop ends without a match.
RECURSIVE ScanCorrect(_, _)
ScanCorrect(options, i) ==
  IF i > Len(options) THEN 0
  ELSE IF HasMarker(options[i]) THEN i - 1
  ELSE ScanCorrect(options, i + 1)

\* Variant: lines.slice(1), every line after the first becomes an option.
OptionsOfAllLines(lines) ==
  LET sl == SubSeq(lines, 2, Len(lines))
  IN [i \in 1..Len(sl) |-> OptionTextOf(sl[i])]

\* lines.slice(1, 5).map(strip enumerator)
OptionsOf(lines) ==
  LET sl == SubSeq(lines, 2, IF Len(lines) < 5 THEN Len(lines) ELSE 5)
  IN [i \in 1..Len(sl) |-> OptionTextOf(sl[i])]

\* The body of questionBlocks.forEach for one block with enough lines.
ParseBlock(lines, index) ==
  LET options == OptionsOf(lines)
      anyMarker == \E i \in 1..Len(options) : HasMarker(options[i])
      correctAnswer == ScanCorrect(options, 1)
      finalOptions ==
        [i \in 1..Len(options) |->
           IF anyMarker /\ i = correctAnswer + 1
           THEN Trim(RemoveMarkers(options[i]))
           ELSE options[i]]
  IN [id |-> index, text |-> QuestionTextOf(lines[1]),
      options |-> finalOptions, correctAnswer |-> correctAnswer]

\* Index (1-based) of the first block with fewer than 5 lines, 0 if none:
\* the block at which forEach throws.
RECURSIVE FirstShortBlock(_, _)
FirstShortBlock(blocks, i) ==
  IF i > Len(blocks) THEN 0
  ELSE IF Len(BlockLines(blocks[i])) < 5 THEN i
  ELSE FirstShortBlock(blocks, i + 1)

\* The try block of parseQuestionsFromText as a function of bulkText:
\* either the error message or the parsed questions.
ParseResult(text) ==
  IF Len(Trim(text)) = 0
  THEN [ok |-> FALSE, error |-> <<"empty">>, questions |-> <<>>]
  ELSE LET blocks == QuestionBlocks(text)
           bad == FirstShortBlock(blocks, 1)
       IN IF bad > 0
          THEN [ok |-> FALSE, error |-> <<"block", bad>>, questions |-> <<>>]
          ELSE IF Len(blocks) = 0
          THEN [ok |-> FALSE, error |-> <<"none">>, questions |-> <<>>]
          ELSE [ok |-> TRUE, error |-> <<>>,
                questions |-> [k \in 1..Len(blocks) |->
                                 ParseBlock(BlockLines(blocks[k]), k - 1)]]

\* ------------------------------------------------------------------------
\* State
\* ------------------------------------------------------------------------

VARIABLES
  wizard,      \* CreateQuizPage: the useState values of the creation wizard
  heap,        \* the question objects the wizard's arrays refer to
  srcBlocks,   \* the blocks (lists of lines) the current bulkText was typed from
  remote,      \* the hosted store: quizzes, questions and quiz_results rows
  localStore,  \* localStorage: the values under 'localQuizzes' and 'quizHistory'
  nextId,      \* how many ids (database uuids and uuidv4 values) were minted
  calls,       \* the createQuiz invocations that are suspended at an await
  take,        \* TakeQuizPage: the useState values of the quiz-taking page
  returned,    \* history: what createQuiz and saveQuizResult handed back
  lastOp       \* the handler that ran last, with its inputs and outcome

vars == <<wizard, heap, srcBlocks, remote, localStore, nextId, calls, take,
          returned, lastOp>>

wizardVars == <<wizard, heap, srcBlocks>>

storeVars == <<remote, localStore, nextId, calls, returned>>

\* ------------------------------------------------------------------------
\* Question objects: the wizard's arrays hold references, and the edit
\* handlers copy the array but write into the objects it shares.
\* ------------------------------------------------------------------------

RECURSIVE SeqRange(_)
SeqRange(s) == IF s = <<>> THEN {} ELSE {Head(s)} \cup SeqRange(Tail(s))

\* The n smallest references not in use.
RECURSIVE FreshRefs(_, _, _)
FreshRefs(used, n, from) ==
  IF n = 0 THEN <<>>
  ELSE IF from \in used THEN FreshRefs(used, n, from + 1)
  ELSE <<from>> \o FreshRefs(used \cup {from}, n - 1, from + 1)

\* The elements of s in order of first occurrence.
RECURSIVE Dedup(_, _)
Dedup(s, seen) ==
  IF s = <<>> THEN <<>>
  ELSE IF Head(s) \in seen THEN Dedup(Tail(s), seen)
  ELSE <<Head(s)>> \o Dedup(Tail(s), seen \cup {Head(s)})

IndexOf(s, x) == CHOOSE k \in 1..Len(s) : s[k] = x

RECURSIVE Flatten(_)
Flatten(ss) == IF ss = <<>> THEN <<>> ELSE Head(ss) \o Flatten(Tail(ss))

\* { id: `q${Date.now()}`, text: '', options: ['', '', '', ''], correctAnswer: 0 }
EmptyQuestion ==
  [id |-> 0, text |-> <<>>, options |-> <<<<>>, <<>>, <<>>, <<>>>>, correctAnswer |-> 0]

\* The wizard's questions as values.
QuestionsOf(w, h) == [k \in 1..Len(w.questions) |-> h[w.questions[k]]]

\* ------------------------------------------------------------------------
\* Bulk text typed by the author
\* ------------------------------------------------------------------------

RECURSIVE JoinWith(_, _)
JoinWith(parts, sep) ==
  IF parts = <<>> THEN <<>>
  ELSE IF Len(parts) = 1 THEN parts[1]
  ELSE parts[1] \o sep \o JoinWith(Tail(parts), sep)

\* A block as text: its lines separated by single line feeds.
BlockText(lines) == JoinWith(lines, <<NL>>)

\* The text of a list of blocks separated by sep, between lead and trail.
Assemble(blocks, sep, lead, trail) ==
  lead \o JoinWith([i \in 1..Len(blocks) |-> BlockText(blocks[i])], sep) \o trail

\* ------------------------------------------------------------------------
\* Bounds of the bulk texts
\* ------------------------------------------------------------------------

\* Most option lines of the varied block that are not plain text.
MaxSpecial == 2

\* Most lines after the question line in the varied block.
MaxOptLines == 5

\* Most fixed blocks typed next to the varied block.
MaxFixedBlocks == 1

\* Question lines: numbered; indented and numbered with a parenthesis.
QLinePool ==
  << <<"1", ".", " ", "Q">>,
     <<" ", "1", "2", ")", "R", "?">> >>

\* Plain option line number i.
PlainOpt(i) == <<"p", <<"1", "2", "3", "4", "5", "6", "7">>[i]>>

\* Option lines with an enumerator, a marker, or both.
OptPool ==
  << <<"A", ".", " ", "x">>,
     <<"y", "*">>,
     <<"z", " ">> \o CorrectLiteral,
     <<"(", "c", "o", "r", "r", "e", "c", "t", "*", ")">>,
     <<"C", ")", " ", "w", CheckMark, " ">>,
     <<CheckMark, "v">> >>

\* Fixed blocks: a well-formed one, one with a missing option, a long one.
FixedPool ==
  << << <<"2", ".", " ", "S">>, <<"a">>, <<"b", "*">>, <<"c">>, <<"d">> >>,
     << <<"T">>, <<"a">>, <<"b">>, <<"c">> >>,
     << <<"U">>, <<"a">>, <<"b">>, <<"c">>, <<"d", CheckMark>>, <<"e", "*">> >> >>

\* Ways to lay the blocks out: separator, leading text, trailing text.
Layouts ==
  << [sep |-> <<NL, NL>>, lead |-> <<>>, trail |-> <<>>],
     [sep |-> <<NL, " ", NL, NL>>, lead |-> <<NL>>, trail |-> <<NL>>],
     [sep |-> <<NL, "\t", NL, " ", NL>>, lead |-> <<" ", NL, NL>>,
      trail |-> <<NL, NL, " ">>] >>

\* The option lines chosen by f: 0 is the plain line, i > 0 is OptPool[i].
OptLinesOf(f) ==
  [i \in DOMAIN f |-> IF f[i] = 0 THEN PlainOpt(i) ELSE OptPool[f[i]]]

OptChoices(n, special) ==
  {f \in [1..n -> 0..Len(OptPool)] :
     Cardinality({i \in 1..n : f[i] # 0}) <= special}

\* The varied block: a question line and 3 to MaxOptLines option lines, at
\* most special of them not plain.
VariedBlocks(special) ==
  {<<QLinePool[q]>> \o OptLinesOf(f) :
     q \in 1..Len(QLinePool),
     f \in UNION {OptChoices(n, special) : n \in 3..MaxOptLines}}

FixedLists ==
  UNION {[1..n -> 1..Len(FixedPool)] : n \in 0..MaxFixedBlocks}

\* The block lists an author types: the varied block alone, or a varied
\* block with at most one marked or enumerated line before or after fixed
\* blocks.
TypedBlockLists ==
  {<<v>> : v \in VariedBlocks(MaxSpecial)}
  \cup
  {IF first THEN <<v>> \o [i \in DOMAIN t |-> FixedPool[t[i]]]
            ELSE [i \in DOMAIN t |-> FixedPool[t[i]]] \o <<v>> :
     v \in VariedBlocks(1), t \in FixedLists \ {<<>>}, first \in BOOLEAN}

\* Texts typed over an earlier one: a block list that parses, one whose
\* second block lacks an option, and the empty text.
RetypedBlockLists ==
  { <<FixedPool[1], FixedPool[3]>>, <<FixedPool[3], FixedPool[2]>>, <<>> }

\* ------------------------------------------------------------------------
\* CreateQuizPage: state after construction
\* ------------------------------------------------------------------------

NoError == <<>>

\* useState<number>(10): the time limit in minutes the wizard starts with.
DefaultTimeLimit == 10

\* No quiz object: handleCreateQuiz is not running.
NoQuiz == [title |-> <<>>, description |-> <<>>, category |-> <<>>,
           timeLimit |-> <<>>,
           questions |-> <<>>]

\* The useState initial values (the errors object, which no handler reads,
\* is left out, and so is the category); the time limit input is left at
\* its initial value. attempts, newQuiz and createPc are the locals of a
\* running handleCreateQuiz, toast the last toast shown.
WizardInit ==
  [title |-> <<>>, description |-> <<>>, timeLimit |-> <<DefaultTimeLimit>>,
   questions |-> <<1>>,
   currentStep |-> 1,
   bulkText |-> <<>>,
   parsingMethod |-> "manual",
   showParsingPreview |-> FALSE,
   parsingError |-> NoError,
   isSubmitting |-> FALSE,
   attempts |-> 0, newQuiz |-> NoQuiz, createPc |-> "idle", toast |-> "none"]

HeapInit == <<EmptyQuestion>>

\* The references some array still holds, in a fixed order: the wizard's
\* questions, the quiz a running handleCreateQuiz built, the quizzes of the
\* suspended createQuiz calls.
LiveRefs(w, cs) ==
  Dedup(w.questions \o w.newQuiz.questions
          \o Flatten([i \in 1..Len(cs) |-> cs[i].questions]), {})

\* Object identity is kept up to renaming: the objects still referred to
\* are numbered in the order of LiveRefs, the others are dropped (garbage
\* collection).
Canon(w, h, cs) ==
  LET order == LiveRefs(w, cs)
      Ren(refs) == [k \in 1..Len(refs) |-> IndexOf(order, refs[k])]
  IN [w |-> [w EXCEPT !.questions = Ren(@), !.newQuiz.questions = Ren(@)],
      h |-> [k \in 1..Len(order) |-> h[order[k]]],
      cs |-> [i \in 1..Len(cs) |-> [cs[i] EXCEPT !.questions = Ren(@)]]]

\* The wizard state, objects and suspended calls an action leaves.
Install(w, h, cs) ==
  LET c == Canon(w, h, cs)
  IN /\ wizard' = c.w
     /\ heap' = c.h
     /\ calls' = c.cs

\* ------------------------------------------------------------------------
\* CreateQuizPage: bulk text and parsing
\* ------------------------------------------------------------------------

\* Variant: on a malformed block the questions parsed before it are kept.
ParseEffectPartial(w, h) ==
  LET blocks == QuestionBlocks(w.bulkText)
      bad == FirstShortBlock(blocks, 1)
      r == ParseResult(w.bulkText)
      qs == IF r.ok THEN r.questions
            ELSE IF bad > 1
            THEN [k \in 1..(bad - 1) |-> ParseBlock(BlockLines(blocks[k]), k - 1)]
            ELSE <<>>
      refs == FreshRefs(DOMAIN h, Len(qs), 1)
      made == [x \in SeqRange(refs) |-> qs[CHOOSE k \in 1..Len(refs) : refs[k] = x]]
  IN IF qs # <<>>
     THEN [w |-> [w EXCEPT !.parsingError = r.error, !.questions = refs,
                           !.showParsingPreview = r.ok \/ @],
           h |-> made @@ h]
     ELSE [w |-> [w EXCEPT !.parsingError = r.error], h |-> h]

\* parseQuestionsFromText on wizard state w and heap h: the state it leaves.
ParseEffect(w, h) ==
  LET r == ParseResult(w.bulkText)
      refs == FreshRefs(DOMAIN h, Len(r.questions), 1)
      made == [x \in SeqRange(refs) |->
                 r.questions[CHOOSE k \in 1..Len(refs) : refs[k] = x]]
  IN IF r.ok
     THEN [w |-> [w EXCEPT !.parsingError = NoError, !.questions = refs,
                           !.showParsingPreview = TRUE],
           h |-> made @@ h]
     ELSE [w |-> [w EXCEPT !.parsingError = r.error], h |-> h]

\* The 'Parse Questions' button.
ParseQuestionsFromText ==
  /\ wizard.createPc # "navigated"
  /\ wizard.parsingMethod = "automatic"
  /\ LET e == ParseEffect(wizard, heap)
     IN Install(e.w, e.h, calls)
  /\ lastOp' = [op |-> "parse"]
  /\ UNCHANGED <<srcBlocks, remote, localStore, nextId, take, returned>>

\* onChange of the bulk text area, the author typing the blocks bl in
\* layout number lay.
BulkTextChange(bl, lay) ==
  /\ wizard.createPc # "navigated"
  /\ wizard.parsingMethod = "automatic"
  /\ wizard' = [wizard EXCEPT
                  !.bulkText = Assemble(bl, Layouts[lay].sep, Layouts[lay].lead,
                                        Layouts[lay].trail),
                  !.showParsingPreview = FALSE]
  /\ srcBlocks' = bl
  /\ lastOp' = [op |-> "ui"]
  /\ UNCHANGED <<heap, remote, localStore, nextId, calls, take, returned>>

\* The first text is any typed block list; a text typed over an earlier one
\* comes from the small list.
TypeFirstText ==
  /\ wizard.bulkText = <<>> /\ lastOp.op = "init"
  /\ \E bl \in TypedBlockLists, lay \in 1..Len(Layouts) : BulkTextChange(bl, lay)

RetypeText ==
  /\ wizard.bulkText # <<>>
  /\ \E bl \in RetypedBlockLists : BulkTextChange(bl, 1)

\* ------------------------------------------------------------------------
\* The two stores
\* ------------------------------------------------------------------------

\* Most ids minted in one run (database uuids and uuidv4 values together).
MaxIds == 2

RemoteInit == [quizzes |-> <<>>, questions |-> <<>>, results |-> <<>>]

\* A value under a localStorage key: absent, text JSON.parse rejects, JSON
\* that is not an array, or the JSON of an array.
LSMissing == [tag |-> "missing", items |-> <<>>]

LSGarbage == [tag |-> "garbage", items |-> <<>>]

LSNonArray == [tag |-> "nonarray", items |-> <<>>]

LSArray(items) == [tag |-> "array", items |-> items]

\* How localStorage answers during one handler: "ok", "full" (setItem throws,
\* the quota is used up) or "denied" (getItem and setItem both throw).
StorageModes == {"ok", "full", "denied"}

\* safeLocalStorage.getItem: the stored value, null when absent or on a throw.
SafeGetItem(ls, key, acc) == IF acc = "denied" THEN LSMissing ELSE ls[key]

\* safeLocalStorage.setItem: stores the value; a throw is caught and logged.
SafeSetItem(ls, key, value, acc) ==
  IF acc = "ok" THEN [ls EXCEPT ![key] = value] ELSE ls

DbId(n) == <<"db", n>>

Uuid(n) == <<"uuid", n>>

\* quiz.questions.map((q, index) => ({quiz_id, text, options, correct_answer,
\* position})): the rows of the question insert, read from the objects now.
QuestionRows(quizId, refs, h) ==
  [k \in 1..Len(refs) |->
     [quiz_id |-> quizId, text |-> h[refs[k]].text, options |-> h[refs[k]].options,
      correct_answer |-> h[refs[k]].correctAnswer, position |-> k - 1]]

\* The objects behind refs as JSON.stringify writes them.
QuestionValues(refs, h) == [k \in 1..Len(refs) |-> h[refs[k]]]

\* The rows of a quiz in the questions table (position order is insertion
\* order: one batch per quiz).
RowsOfQuiz(rem, quizId) ==
  LET IsOf(row) == row.quiz_id = quizId IN SelectSeq(rem.questions, IsOf)

\* get_quiz_with_questions: the quiz row with its questions, or null.
GetQuizWithQuestions(rem, id) ==
  LET IsIt(row) == row.id = id
      hit == SelectSeq(rem.quizzes, IsIt)
      rows == RowsOfQuiz(rem, id)
  IN IF hit = <<>> THEN [found |-> FALSE]
     ELSE [found |-> TRUE,
           quiz |-> [id |-> id, title |-> hit[1].title,
                     description |-> hit[1].description,
                     category |-> hit[1].category,
                     timeLimit |-> hit[1].time_limit,
                     questions |->
                       [k \in 1..Len(rows) |->
                          [id |-> <<"dbq", id, rows[k].position>>,
                           text |-> rows[k].text, options |-> rows[k].options,
                           correctAnswer |-> rows[k].correct_answer]]]]

\* localQuizzes.find(q => q.id === id)
FindLocal(items, id) ==
  LET IsIt(q) == q.id = id
      hit == SelectSeq(items, IsIt)
  IN IF hit = <<>> THEN [found |-> FALSE] ELSE [found |-> TRUE, quiz |-> hit[1]]

Raise(msg) == [kind |-> "raise", error |-> msg]

\* getQuizById without the local scan.
GetQuizByIdRemoteOnly(rem, ls, id, ok, acc) ==
  LET data == GetQuizWithQuestions(rem, id)
  IN IF ok /\ data.found THEN [kind |-> "quiz", from |-> "remote", quiz |-> data.quiz]
     ELSE Raise("Quiz not found")

\* quizService.getQuizById: the remote quiz, else the local one, else a throw.
GetQuizByIdResult(rem, ls, id, ok, acc) ==
  LET data == GetQuizWithQuestions(rem, id)
      saved == SafeGetItem(ls, "localQuizzes", acc)
      loc == IF saved.tag = "array" THEN FindLocal(saved.items, id)
             ELSE [found |-> FALSE]
  IN IF ok /\ data.found THEN [kind |-> "quiz", from |-> "remote", quiz |-> data.quiz]
     ELSE IF loc.found THEN [kind |-> "quiz", from |-> "local", quiz |-> loc.quiz]
     ELSE Raise("Quiz not found")

RECURSIVE Reverse(_)
Reverse(s) == IF s = <<>> THEN <<>> ELSE Append(Reverse(Tail(s)), Head(s))

\* select('*').order('created_at', {ascending: false}), formatted with
\* questions: [].
FormattedRemoteQuizzes(rem) ==
  LET rows == Reverse(rem.quizzes)
  IN [k \in 1..Len(rows) |->
        [id |-> rows[k].id, title |-> rows[k].title,
         description |-> rows[k].description, category |-> rows[k].category,
         timeLimit |-> rows[k].time_limit,
         questions |-> <<>>]]

\* The end of getAllQuizzes, a spread of the parsed value: an array is
\* appended, a value that is no array throws into the outer catch.
SpreadQuizzes(remotePart, saved) ==
  IF saved.tag = "nonarray" THEN <<>>
  ELSE remotePart \o (IF saved.tag = "array" THEN saved.items ELSE <<>>)

\* quizService.getAllQuizzes
GetAllQuizzesResult(rem, ls, ok, acc) ==
  SpreadQuizzes(IF ok THEN FormattedRemoteQuizzes(rem) ELSE <<>>,
                SafeGetItem(ls, "localQuizzes", acc))

\* ------------------------------------------------------------------------
\* quizService.createQuiz, suspended at its awaits
\* ------------------------------------------------------------------------

\* A number or undefined is <<n>> or <<>>; x || undefined and x ? Number(x)
\* : null keep a number that is not 0. A string is its characters, and the
\* empty string, undefined and null are all <<>>, which is what
\* category || undefined and category ? String(category) : null make of
\* them.
OrUndefined(x) == IF x = <<0>> THEN <<>> ELSE x

\* A createQuiz invocation: the quiz it was handed (the questions array by
\* reference) and the await it is suspended at.
NewCall(caller, title, description, category, timeLimit, refs) ==
  [caller |-> caller, title |-> title, description |-> description,
   category |-> category, timeLimit |-> timeLimit,
   questions |-> refs, pc |-> "insertQuiz", createdId |-> <<>>, rows |-> <<>>]

RemoveAt(s, i) == SubSeq(s, 1, i - 1) \o SubSeq(s, i + 1, Len(s))

\* A catch branch that writes a list of the new quiz alone, as it would
\* after reading the list before entries of other calls were written.
CreateLocalFallbackOverwrite(ls, c, h, n, acc) ==
  LET localQuiz == [id |-> Uuid(n), title |-> c.title,
                    description |-> c.description,
                    category |-> c.category,
                    timeLimit |-> OrUndefined(c.timeLimit),
                    questions |-> QuestionValues(c.questions, h)]
  IN [ls |-> SafeSetItem(ls, "localQuizzes", LSArray(<<localQuiz>>), acc),
      outcome |-> [kind |-> "id", id |-> Uuid(n), path |-> "local"]]

\* The catch branch of createQuiz: mint an id, read the local list, push the
\* quiz, write the list back. A stored value that is no array makes push
\* throw, which createQuiz rethrows.
CreateLocalFallback(ls, c, h, n, acc) ==
  LET saved == SafeGetItem(ls, "localQuizzes", acc)
      localQuiz == [id |-> Uuid(n), title |-> c.title,
                    description |-> c.description,
                    category |-> c.category,
                    timeLimit |-> OrUndefined(c.timeLimit),
                    questions |-> QuestionValues(c.questions, h)]
      items == IF saved.tag = "array" THEN saved.items ELSE <<>>
  IN IF saved.tag = "nonarray"
     THEN [ls |-> ls, outcome |-> Raise("push is not a function")]
     ELSE [ls |-> SafeSetItem(ls, "localQuizzes",
                              LSArray(Append(items, localQuiz)), acc),
           outcome |-> [kind |-> "id", id |-> Uuid(n), path |-> "local"]]

\* maxAttempts of handleCreateQuiz.
MaxAttempts == 2

\* A handleCreateQuiz that reports the first failure without a retry.
WizardAfterCreateGivesUp(w, outcome) ==
  IF outcome.kind = "id"
  THEN [w EXCEPT !.createPc = "navigated", !.toast = "success",
                 !.isSubmitting = FALSE, !.newQuiz = NoQuiz]
  ELSE [w EXCEPT !.createPc = "idle", !.toast = "error", !.isSubmitting = FALSE,
                 !.newQuiz = NoQuiz]

\* handleCreateQuiz after createQuiz settled: leave the loop with the id and
\* navigate, or retry after the delay, or report the failure.
WizardAfterCreate(w, outcome) ==
  IF outcome.kind = "id"
  THEN [w EXCEPT !.createPc = "navigated", !.toast = "success",
                 !.isSubmitting = FALSE, !.newQuiz = NoQuiz]
  ELSE IF w.attempts >= MaxAttempts
  THEN [w EXCEPT !.createPc = "idle", !.toast = "error", !.isSubmitting = FALSE,
                 !.newQuiz = NoQuiz]
  ELSE [w EXCEPT !.createPc = "delay"]

\* What a settled createQuiz leaves in the history.
ReturnedCreate(c, h, outcome) ==
  [op |-> "createQuiz", outcome |-> outcome, title |-> c.title,
   description |-> c.description, category |-> c.category,
   timeLimit |-> c.timeLimit, questions |-> QuestionValues(c.questions, h)]

\* The response to the quiz-row insert arrives for call i: ok says whether
\* the row was inserted, acc how localStorage answers in the fallback.
CreateQuizInsertQuiz(i, ok, acc) ==
  /\ i \in 1..Len(calls)
  /\ calls[i].pc = "insertQuiz"
  /\ LET c == calls[i]
         fb == CreateLocalFallback(localStore, c, heap, nextId + 1, acc)
     IN /\ nextId' = nextId + 1
        /\ IF ok
           THEN /\ remote' = [remote EXCEPT !.quizzes =
                                Append(@, [id |-> DbId(nextId + 1), title |-> c.title,
                                           description |-> c.description,
                                           category |-> c.category,
                                           time_limit |-> OrUndefined(c.timeLimit)])]
                /\ calls' = [calls EXCEPT ![i].pc = "insertQuestions",
                                          ![i].createdId = DbId(nextId + 1),
                                          ![i].rows = QuestionRows(DbId(nextId + 1),
                                                                   c.questions, heap)]
                /\ lastOp' = [op |-> "createQuiz.insertQuiz", ok |-> TRUE]
                /\ UNCHANGED <<localStore, returned, wizard, heap>>
           ELSE /\ localStore' = fb.ls
                /\ returned' = Append(returned, ReturnedCreate(c, heap, fb.outcome))
                /\ lastOp' = [op |-> "createQuiz", caller |-> c.caller,
                              remoteRow |-> FALSE, questionsOk |-> FALSE,
                              acc |-> acc,
                              outcome |-> fb.outcome]
                /\ IF c.caller = "wizard"
                   THEN Install(WizardAfterCreate(wizard, fb.outcome), heap,
                                RemoveAt(calls, i))
                   ELSE /\ calls' = RemoveAt(calls, i)
                        /\ UNCHANGED <<wizard, heap>>
                /\ UNCHANGED remote
  /\ UNCHANGED <<srcBlocks, take>>

\* A question insert whose failure takes the quiz row back.
QuestionInsertRollback(rem, c, ok) ==
  LET Others(row) == row.id # c.createdId
  IN IF ok THEN [rem EXCEPT !.questions = @ \o c.rows]
     ELSE [rem EXCEPT !.quizzes = SelectSeq(@, Others)]

\* from('questions').insert(questionsToInsert): the rows are added, or on an
\* error (which is only logged) nothing changes.
QuestionInsert(rem, c, ok) ==
  IF ok THEN [rem EXCEPT !.questions = @ \o c.rows] ELSE rem

\* A createQuiz that, when the question insert fails, also writes the quiz
\* to the local list.
CreateQuizInsertQuestionsThenLocal(i, ok) ==
  /\ i \in 1..Len(calls)
  /\ calls[i].pc = "insertQuestions"
  /\ LET c == calls[i]
         outcome == [kind |-> "id", id |-> c.createdId, path |-> "remote"]
         fb == CreateLocalFallback(localStore, c, heap, nextId, "ok")
     IN /\ remote' = QuestionInsert(remote, c, ok)
        /\ localStore' = IF ok THEN localStore ELSE fb.ls
        /\ returned' = Append(returned, ReturnedCreate(c, heap, outcome))
        /\ lastOp' = [op |-> "createQuiz", caller |-> c.caller, remoteRow |-> TRUE,
                      questionsOk |-> ok, acc |-> "ok", outcome |-> outcome]
        /\ IF c.caller = "wizard"
           THEN Install(WizardAfterCreate(wizard, outcome), heap, RemoveAt(calls, i))
           ELSE /\ calls' = RemoveAt(calls, i)
                /\ UNCHANGED <<wizard, heap>>
  /\ UNCHANGED <<srcBlocks, nextId, take>>

\* The response to the question insert arrives for call i; on an error the
\* quiz id is returned all the same.
CreateQuizInsertQuestions(i, ok) ==
  /\ i \in 1..Len(calls)
  /\ calls[i].pc = "insertQuestions"
  /\ LET c == calls[i]
         outcome == [kind |-> "id", id |-> c.createdId, path |-> "remote"]
     IN /\ remote' = QuestionInsert(remote, c, ok)
        /\ returned' = Append(returned, ReturnedCreate(c, heap, outcome))
        /\ lastOp' = [op |-> "createQuiz", caller |-> c.caller, remoteRow |-> TRUE,
                      questionsOk |-> ok, acc |-> "ok", outcome |-> outcome]
        /\ IF c.caller = "wizard"
           THEN Install(WizardAfterCreate(wizard, outcome), heap, RemoveAt(calls, i))
           ELSE /\ calls' = RemoveAt(calls, i)
                /\ UNCHANGED <<wizard, heap>>
  /\ UNCHANGED <<srcBlocks, localStore, nextId, take>>

\* ------------------------------------------------------------------------
\* quizService.saveQuizResult
\* ------------------------------------------------------------------------

RemoteQuizIds(rem) == {rem.quizzes[k].id : k \in 1..Len(rem.quizzes)}

\* The insert into quiz_results succeeds when the store answers and the row
\* satisfies the table: quiz_id references quizzes(id), and
\* 0 <= score <= total_questions.
ResultInsertOk(rem, result, ok) ==
  /\ ok
  /\ result.quizId \in RemoteQuizIds(rem)
  /\ result.score >= 0 /\ result.score <= result.totalQuestions

\* A saveQuizResult whose outer catch rethrows the error of the remote
\* insert.
SaveQuizResultRethrow(rem, ls, result, n, ok, acc) ==
  LET row == [id |-> DbId(n), quiz_id |-> result.quizId, score |-> result.score,
              total_questions |-> result.totalQuestions,
              completed_at |-> result.completedAt]
  IN IF ResultInsertOk(rem, result, ok)
     THEN [rem |-> [rem EXCEPT !.results = Append(@, row)], ls |-> ls,
           outcome |-> [kind |-> "id", id |-> DbId(n), path |-> "remote"]]
     ELSE [rem |-> rem, ls |-> ls, outcome |-> Raise("insert failed")]

\* saveQuizResult: the remote insert, else the append to 'quizHistory'; a
\* throw of JSON.parse or of push ends in return null.
SaveQuizResultEffect(rem, ls, result, n, ok, acc) ==
  LET saved == SafeGetItem(ls, "quizHistory", acc)
      entry == [id |-> Uuid(n), quizId |-> result.quizId, score |-> result.score,
                totalQuestions |-> result.totalQuestions,
                completedAt |-> result.completedAt]
      row == [id |-> DbId(n), quiz_id |-> result.quizId, score |-> result.score,
              total_questions |-> result.totalQuestions,
              completed_at |-> result.completedAt]
      items == IF saved.tag = "array" THEN saved.items ELSE <<>>
  IN IF ResultInsertOk(rem, result, ok)
     THEN [rem |-> [rem EXCEPT !.results = Append(@, row)], ls |-> ls,
           outcome |-> [kind |-> "id", id |-> DbId(n), path |-> "remote"]]
     ELSE IF saved.tag \in {"garbage", "nonarray"}
     THEN [rem |-> rem, ls |-> ls, outcome |-> [kind |-> "null"]]
     ELSE [rem |-> rem,
           ls |-> SafeSetItem(ls, "quizHistory", LSArray(Append(items, entry)), acc),
           outcome |-> [kind |-> "id", id |-> Uuid(n), path |-> "local"]]

\* ------------------------------------------------------------------------
\* quizService.getQuizHistory
\* ------------------------------------------------------------------------

\* The placeholder title.
UnknownQuiz == <<"Unknown Quiz">>

\* Entries in descending order of completedAt. x goes before the entries
\* completed earlier; among entries completed at the same time it goes last,
\* or first when tieFirst.
RECURSIVE InsertDesc(_, _, _)
InsertDesc(sorted, x, tieFirst) ==
  IF sorted = <<>> THEN <<x>>
  ELSE IF \/ x.completedAt > Head(sorted).completedAt
          \/ tieFirst /\ x.completedAt = Head(sorted).completedAt
  THEN <<x>> \o sorted
  ELSE <<Head(sorted)>> \o InsertDesc(Tail(sorted), x, tieFirst)

RECURSIVE SortDescFrom(_, _, _)
SortDescFrom(items, sorted, tieFirst) ==
  IF items = <<>> THEN sorted
  ELSE SortDescFrom(Tail(items), InsertDesc(sorted, Head(items), tieFirst), tieFirst)

\* The entries in the order they are stored in.
SortAsStored(items, tieFirst) == items

\* Array.prototype.sort with (a, b) => time(b) - time(a): stable. The order
\* by completed_at of the remote store leaves the order of equal rows open
\* (tieFirst).
SortDesc(items, tieFirst) == SortDescFrom(items, <<>>, tieFirst)

\* The remote branch: quiz_results joined with the title and category of
\* the quiz, newest first, mapped to history entries.
RemoteHistory(rem, tieFirst) ==
  LET Entry(row) ==
        LET data == GetQuizWithQuestions(rem, row.quiz_id)
        IN [id |-> row.id, quizId |-> row.quiz_id,
            quizTitle |-> IF data.found /\ data.quiz.title # <<>>
                          THEN data.quiz.title ELSE UnknownQuiz,
            score |-> row.score, totalQuestions |-> row.total_questions,
            completedAt |-> row.completed_at,
            category |-> IF data.found THEN data.quiz.category ELSE <<>>]
  IN SortDesc([k \in 1..Len(rem.results) |-> Entry(rem.results[k])], tieFirst)

\* A localStorage branch in which one lookup that throws fails the whole
\* Promise.all, which the catch turns into [].
LocalHistoryAllOrNothing(rem, ls, acc, lk) ==
  LET saved == SafeGetItem(ls, "quizHistory", acc)
      Lookup(k) == GetQuizByIdResult(rem, ls, saved.items[k].quizId, lk[k], acc)
      Enhanced(k) ==
        LET item == saved.items[k]
        IN [id |-> item.id, quizId |-> item.quizId,
            quizTitle |-> Lookup(k).quiz.title,
            score |-> item.score, totalQuestions |-> item.totalQuestions,
            completedAt |-> item.completedAt,
            category |-> Lookup(k).quiz.category]
  IN IF saved.tag # "array" THEN <<>>
     ELSE IF \E k \in 1..Len(saved.items) : Lookup(k).kind # "quiz" THEN <<>>
     ELSE SortDesc([k \in 1..Len(saved.items) |-> Enhanced(k)], FALSE)

\* The localStorage branch: nothing stored, or a value that does not parse
\* or is no array, gives []; else every entry gets the title and category
\* of its quiz from getQuizById (lk[k] says whether the remote fetch of the
\* k-th lookup succeeds), or the placeholders when the lookup throws.
LocalHistory(rem, ls, acc, lk) ==
  LET saved == SafeGetItem(ls, "quizHistory", acc)
      Enhanced(k) ==
        LET item == saved.items[k]
            r == GetQuizByIdResult(rem, ls, item.quizId, lk[k], acc)
        IN [id |-> item.id, quizId |-> item.quizId,
            quizTitle |-> IF r.kind = "quiz" THEN r.quiz.title ELSE UnknownQuiz,
            score |-> item.score, totalQuestions |-> item.totalQuestions,
            completedAt |-> item.completedAt,
            category |-> IF r.kind = "quiz" THEN r.quiz.category ELSE <<>>]
  IN IF saved.tag # "array" THEN <<>>
     ELSE SortDesc([k \in 1..Len(saved.items) |-> Enhanced(k)], FALSE)

\* A getQuizHistory that lets the failure of both reads out.
GetQuizHistoryRaises(rem, ls, ok, acc, lk, tieFirst) ==
  IF ok /\ rem.results # <<>>
  THEN [kind |-> "list", items |-> RemoteHistory(rem, tieFirst)]
  ELSE IF ~ok /\ SafeGetItem(ls, "quizHistory", acc).tag # "array"
  THEN Raise("history unavailable")
  ELSE [kind |-> "list", items |-> LocalHistory(rem, ls, acc, lk)]

\* quizService.getQuizHistory
GetQuizHistoryResult(rem, ls, ok, acc, lk, tieFirst) ==
  IF ok /\ rem.results # <<>>
  THEN [kind |-> "list", items |-> RemoteHistory(rem, tieFirst)]
  ELSE [kind |-> "list", items |-> LocalHistory(rem, ls, acc, lk)]

\* ------------------------------------------------------------------------
\* The adapter called directly (one session, calls made one after another
\* except for createQuiz, which may be suspended while others run)
\* ------------------------------------------------------------------------

\* Most createQuiz invocations suspended at the same time.
MaxCalls == 2

\* Question objects of the quizzes handed to createQuiz.
SampleHeap ==
  [r \in {1, 2} |->
     IF r = 1
     THEN [id |-> 0, text |-> <<"Q", "1">>,
           options |-> << <<"a">>, <<"b">>, <<"c">>, <<"d">> >>, correctAnswer |-> 2]
     ELSE [id |-> 1, text |-> <<"Q", "2">>,
           options |-> << <<"e">>, <<"f">>, <<"g">>, <<"h">> >>, correctAnswer |-> 0]]

SampleQuizzes ==
  { [title |-> <<"A">>, description |-> <<"d", "A">>, category |-> <<"c">>,
     timeLimit |-> <<1>>,
     questions |-> <<1, 2>>],
    [title |-> <<"B">>, description |-> <<"d", "B">>, category |-> <<>>,
     timeLimit |-> <<0>>,
     questions |-> <<2>>] }

\* Ids a caller can ask for: the ids createQuiz handed back and one that was
\* never minted.
KnownIds ==
  {returned[k].outcome.id :
     k \in {j \in 1..Len(returned) : /\ returned[j].op = "createQuiz"
                                     /\ returned[j].outcome.kind = "id"}}
  \cup {Uuid(0)}

\* A handler that only reads localStorage: a full quota changes nothing.
ReadModes == {"ok", "denied"}

DirectCreateQuiz(q) ==
  /\ Len(calls) < MaxCalls
  /\ nextId + Len(calls) < MaxIds
  /\ calls' = Append(calls, NewCall("direct", q.title, q.description, q.category,
                                    q.timeLimit,
                                    q.questions))
  /\ lastOp' = [op |-> "createQuiz.start"]
  /\ UNCHANGED <<wizardVars, remote, localStore, nextId, take, returned>>

DirectGetQuizById(id, ok, acc) ==
  /\ lastOp' = [op |-> "getQuizById", id |-> id, ok |-> ok, acc |-> acc,
                outcome |-> GetQuizByIdResult(remote, localStore, id, ok, acc)]
  /\ UNCHANGED <<wizardVars, storeVars, take>>

DirectGetAllQuizzes(ok, acc) ==
  /\ lastOp' = [op |-> "getAllQuizzes", ok |-> ok, acc |-> acc,
                outcome |-> GetAllQuizzesResult(remote, localStore, ok, acc)]
  /\ UNCHANGED <<wizardVars, storeVars, take>>

\* Results a caller hands to saveQuizResult: attempts at the quiz that was
\* never stored were completed at time 1, the others at time 2.
SampleResults ==
  {[quizId |-> id, score |-> 1, totalQuestions |-> 2,
    completedAt |-> IF id = Uuid(0) THEN 1 ELSE 2] : id \in KnownIds}

DirectSaveQuizResult(result, ok, acc) ==
  /\ nextId + Len(calls) < MaxIds
  /\ LET e == SaveQuizResultEffect(remote, localStore, result, nextId + 1, ok, acc)
     IN /\ remote' = e.rem
        /\ localStore' = e.ls
        /\ nextId' = nextId + 1
        /\ returned' = Append(returned, [op |-> "saveQuizResult", outcome |-> e.outcome,
                                         result |-> result])
        /\ lastOp' = [op |-> "saveQuizResult", result |-> result,
                      remoteOk |-> ResultInsertOk(remote, result, ok), acc |-> acc,
                      outcome |-> e.outcome]
  /\ UNCHANGED <<wizardVars, calls, take>>

\* The entries of the local history the stored value holds.
HistoryLength(ls) ==
  IF ls.quizHistory.tag = "array" THEN Len(ls.quizHistory.items) ELSE 0

DirectGetQuizHistory(ok, acc, lk, tieFirst) ==
  /\ lastOp' = [op |-> "getQuizHistory", ok |-> ok, acc |-> acc, lk |-> lk,
                outcome |-> GetQuizHistoryResult(remote, localStore, ok, acc, lk,
                                                 tieFirst)]
  /\ UNCHANGED <<wizardVars, storeVars, take>>

\* Before the first call localStorage holds, under either key, nothing, an
\* empty list, or a value some other writer left there.
LocalInitValues == {LSMissing, LSGarbage, LSNonArray, LSArray(<<>>)}

\* A result an earlier session saved locally, for a quiz in neither store.
EarlierEntry ==
  [id |-> Uuid(0), quizId |-> Uuid(0), score |-> 1, totalQuestions |-> 2,
   completedAt |-> 1]

TakeIdle == [mounted |-> FALSE]

InitStore ==
  /\ wizard = WizardInit
  /\ heap = SampleHeap
  /\ srcBlocks = <<>>
  /\ remote = RemoteInit
  /\ \/ \E v \in LocalInitValues :
          localStore = [localQuizzes |-> v, quizHistory |-> v]
     \/ localStore = [localQuizzes |-> LSMissing,
                      quizHistory |-> LSArray(<<EarlierEntry>>)]
  /\ nextId = 0
  /\ calls = <<>>
  /\ take = TakeIdle
  /\ returned = <<>>
  /\ lastOp = [op |-> "init"]

NextStore ==
  \/ \E q \in SampleQuizzes : DirectCreateQuiz(q)
  \/ \E i \in 1..MaxCalls, ok \in BOOLEAN, acc \in StorageModes :
       CreateQuizInsertQuiz(i, ok, acc)
  \/ \E i \in 1..MaxCalls, ok \in BOOLEAN : CreateQuizInsertQuestions(i, ok)
  \/ \E id \in KnownIds, ok \in BOOLEAN, acc \in ReadModes :
       DirectGetQuizById(id, ok, acc)
  \/ \E ok \in BOOLEAN, acc \in ReadModes : DirectGetAllQuizzes(ok, acc)
  \/ \E r \in SampleResults, ok \in BOOLEAN, acc \in StorageModes :
       DirectSaveQuizResult(r, ok, acc)
  \/ \E ok \in BOOLEAN, acc \in ReadModes, tieFirst \in BOOLEAN,
        lk \in [1..HistoryLength(localStore) -> BOOLEAN] :
       DirectGetQuizHistory(ok, acc, lk, tieFirst)

SpecStore == InitStore /\ [][NextStore]_vars

\* ------------------------------------------------------------------------
\* The bulk parser on every typed text
\* ------------------------------------------------------------------------

InitParser ==
  /\ wizard = [WizardInit EXCEPT !.parsingMethod = "automatic"]
  /\ heap = HeapInit
  /\ srcBlocks = <<>>
  /\ remote = RemoteInit
  /\ localStore = [localQuizzes |-> LSMissing, quizHistory |-> LSMissing]
  /\ nextId = 0
  /\ calls = <<>>
  /\ take = TakeIdle
  /\ returned = <<>>
  /\ lastOp = [op |-> "init"]

NextParser ==
  \/ TypeFirstText
  \/ RetypeText
  \/ ParseQuestionsFromText

SpecParser == InitParser /\ [][NextParser]_vars

\* ------------------------------------------------------------------------
\* CreateQuizPage: the two steps of the wizard
\* ------------------------------------------------------------------------

\* Most questions the wizard holds.
MaxQuestions == 2

\* The page is shown until router.push leaves it.
WizardShown == wizard.createPc # "navigated"

\* str.trim() is the empty string
Blank(str) == Len(Trim(str)) = 0

\* onChange of the title and description inputs (step 1).
SetTitle(v) ==
  /\ WizardShown /\ wizard.currentStep = 1
  /\ wizard' = [wizard EXCEPT !.title = v]
  /\ lastOp' = [op |-> "ui"]
  /\ UNCHANGED <<heap, srcBlocks, storeVars, take>>

SetDescription(v) ==
  /\ WizardShown /\ wizard.currentStep = 1
  /\ wizard' = [wizard EXCEPT !.description = v]
  /\ lastOp' = [op |-> "ui"]
  /\ UNCHANGED <<heap, srcBlocks, storeVars, take>>

\* handleParsingMethodChange: switching to manual with no question adds an
\* empty one.
HandleParsingMethodChange(method) ==
  /\ WizardShown /\ wizard.currentStep = 1
  /\ LET r == FreshRefs(DOMAIN heap, 1, 1)[1]
         adds == method = "manual" /\ wizard.questions = <<>>
     IN Install([wizard EXCEPT !.parsingMethod = method,
                                !.questions = IF adds THEN <<r>> ELSE @],
                IF adds THEN (r :> EmptyQuestion) @@ heap ELSE heap, calls)
  /\ lastOp' = [op |-> "ui"]
  /\ UNCHANGED <<srcBlocks, remote, localStore, nextId, returned, take>>

\* handleAddQuestion (step 2)
HandleAddQuestion ==
  /\ WizardShown /\ wizard.currentStep = 2
  /\ Len(wizard.questions) < MaxQuestions
  /\ LET r == FreshRefs(DOMAIN heap, 1, 1)[1]
     IN Install([wizard EXCEPT !.questions = Append(@, r)],
                (r :> EmptyQuestion) @@ heap, calls)
  /\ lastOp' = [op |-> "ui"]
  /\ UNCHANGED <<srcBlocks, remote, localStore, nextId, returned, take>>

\* handleRemoveQuestion(index): a copy of the array without the element.
HandleRemoveQuestion(index) ==
  /\ WizardShown /\ wizard.currentStep = 2
  /\ index \in 1..Len(wizard.questions)
  /\ Len(wizard.questions) > 1
  /\ Install([wizard EXCEPT !.questions = RemoveAt(@, index)], heap, calls)
  /\ lastOp' = [op |-> "ui"]
  /\ UNCHANGED <<srcBlocks, remote, localStore, nextId, returned, take>>

\* handleQuestionChange(index, field, value): the array is copied, the
\* question object it shares with the old array is written in place.
HandleQuestionChange(index, field, value) ==
  /\ WizardShown /\ wizard.currentStep = 2
  /\ index \in 1..Len(wizard.questions)
  /\ heap' = IF field = "text"
             THEN [heap EXCEPT ![wizard.questions[index]].text = value]
             ELSE [heap EXCEPT ![wizard.questions[index]].correctAnswer = value]
  /\ lastOp' = [op |-> "ui"]
  /\ UNCHANGED <<wizard, srcBlocks, storeVars, take>>

\* handleOptionChange(questionIndex, optionIndex, value): likewise in place.
HandleOptionChange(questionIndex, optionIndex, value) ==
  /\ WizardShown /\ wizard.currentStep = 2
  /\ questionIndex \in 1..Len(wizard.questions)
  /\ heap' = [heap EXCEPT
                ![wizard.questions[questionIndex]].options[optionIndex + 1] = value]
  /\ lastOp' = [op |-> "ui"]
  /\ UNCHANGED <<wizard, srcBlocks, storeVars, take>>

\* validateStep1: the fields in error.
Step1Errors(w) ==
  (IF Blank(w.title) THEN {"title"} ELSE {})
  \cup (IF Blank(w.description) THEN {"description"} ELSE {})
  \cup (IF w.parsingMethod = "automatic" /\ Blank(w.bulkText)
           /\ ~w.showParsingPreview
        THEN {"bulkText"} ELSE {})

\* The predicate of questions.some(...) in validateStep2.
InvalidQuestion(q) ==
  \/ Blank(q.text)
  \/ \E i \in 1..Len(q.options) : Blank(q.options[i])
  \/ Len(q.options) # 4

\* validateStep2: the fields in error.
Step2Errors(w, h) ==
  IF \E k \in 1..Len(w.questions) : InvalidQuestion(h[w.questions[k]])
  THEN {"questions"} ELSE {}

\* handleNextStep on step 1: parse when the text was not parsed yet, then
\* validate; both read the values of the render the click happened in, so
\* the step is decided on the questions held before the parse.
HandleNextStep1 ==
  /\ WizardShown /\ ~wizard.isSubmitting
  /\ wizard.currentStep = 1
  /\ LET parses == /\ wizard.parsingMethod = "automatic"
                   /\ ~wizard.showParsingPreview
                   /\ ~Blank(wizard.bulkText)
         e == IF parses THEN ParseEffect(wizard, heap)
              ELSE [w |-> wizard, h |-> heap]
         errs == Step1Errors(wizard)
         advance == /\ errs = {}
                    /\ \/ wizard.parsingMethod = "automatic"
                          /\ Len(wizard.questions) > 0
                       \/ wizard.parsingMethod = "manual"
     IN Install([e.w EXCEPT !.currentStep = IF advance THEN 2 ELSE 1], e.h, calls)
  /\ lastOp' = [op |-> "ui"]
  /\ UNCHANGED <<srcBlocks, remote, localStore, nextId, returned, take>>

\* handleNextStep on step 2: validate, then handleCreateQuiz up to its first
\* await: the quiz holds the questions array itself, and createQuiz is
\* entered for attempt 1.
HandleNextStep2 ==
  /\ WizardShown /\ ~wizard.isSubmitting
  /\ wizard.currentStep = 2
  /\ LET errs == Step2Errors(wizard, heap)
     IN IF errs # {}
        THEN UNCHANGED <<wizard, calls>>
        ELSE /\ nextId + Len(calls) < MaxIds
             /\ wizard' = [wizard EXCEPT !.isSubmitting = TRUE,
                                         !.newQuiz = [title |-> wizard.title,
                                                      description |-> wizard.description,
                                                      category |-> <<>>,
                                                      timeLimit |->
                                                        OrUndefined(wizard.timeLimit),
                                                      questions |-> wizard.questions],
                                         !.attempts = 1, !.createPc = "awaitCreate",
                                         !.toast = "none"]
             /\ calls' = Append(calls, NewCall("wizard", wizard.title,
                                               wizard.description, <<>>,
                                               OrUndefined(wizard.timeLimit),
                                               wizard.questions))
  /\ lastOp' = IF Step2Errors(wizard, heap) # {} THEN [op |-> "ui"]
               ELSE [op |-> "createQuiz.start"]
  /\ UNCHANGED <<heap, srcBlocks, remote, localStore, nextId, take, returned>>

\* The one-second delay of the retry loop is over: attempts++ and createQuiz
\* is entered again with the same quiz object.
WizardRetry ==
  /\ wizard.createPc = "delay"
  /\ nextId + Len(calls) < MaxIds
  /\ wizard' = [wizard EXCEPT !.attempts = @ + 1, !.createPc = "awaitCreate"]
  /\ calls' = Append(calls, NewCall("wizard", wizard.newQuiz.title,
                                    wizard.newQuiz.description,
                                    wizard.newQuiz.category,
                                    wizard.newQuiz.timeLimit,
                                    wizard.newQuiz.questions))
  /\ lastOp' = [op |-> "createQuiz.start"]
  /\ UNCHANGED <<heap, srcBlocks, remote, localStore, nextId, take, returned>>

\* handlePrevStep
HandlePrevStep ==
  /\ WizardShown
  /\ wizard.currentStep > 1
  /\ wizard' = [wizard EXCEPT !.currentStep = @ - 1]
  /\ lastOp' = [op |-> "ui"]
  /\ UNCHANGED <<heap, srcBlocks, storeVars, take>>

\* ------------------------------------------------------------------------
\* The creation flow: the wizard, createQuiz and both stores
\* ------------------------------------------------------------------------

\* What the author types into the title and description inputs.
FieldValues == {<<"T", "i", "t">>}

\* What the author types into the text input and the first option input of
\* the first question.
TextValues == {<<>>, <<"t">>}

OptionValues == {<<>>, <<"o">>}

\* Bulk texts of the creation flow: one well-formed block, a block whose
\* second option line is only an enumerator, a block with a missing option.
WizardBlockLists ==
  { <<FixedPool[1]>>,
    << << <<"V">>, <<"a">>, <<"b", ")">>, <<"c">>, <<"d">> >> >>,
    <<FixedPool[2]>> }

InitCreate ==
  /\ wizard = WizardInit
  /\ heap = HeapInit
  /\ srcBlocks = <<>>
  /\ remote = RemoteInit
  /\ \E v \in {LSMissing, LSNonArray} :
       localStore = [localQuizzes |-> v, quizHistory |-> v]
  /\ nextId = 0
  /\ calls = <<>>
  /\ take = TakeIdle
  /\ returned = <<>>
  /\ lastOp = [op |-> "init"]

\* While handleCreateQuiz runs the author touches the question inputs only.
AuthorAtRest == ~wizard.isSubmitting

NextCreate ==
  \/ AuthorAtRest /\ \E v \in FieldValues : SetTitle(v)
  \/ AuthorAtRest /\ \E v \in FieldValues : SetDescription(v)
  \/ AuthorAtRest /\ \E m \in {"manual", "automatic"} : HandleParsingMethodChange(m)
  \/ AuthorAtRest /\ \E bl \in WizardBlockLists : BulkTextChange(bl, 1)
  \/ AuthorAtRest /\ ParseQuestionsFromText
  \/ HandleNextStep1
  \/ HandleNextStep2
  \/ AuthorAtRest /\ HandlePrevStep
  \/ AuthorAtRest /\ HandleAddQuestion
  \/ AuthorAtRest /\ \E k \in 1..MaxQuestions : HandleRemoveQuestion(k)
  \/ \E v \in TextValues : HandleQuestionChange(1, "text", v)
  \/ \E v \in OptionValues : HandleOptionChange(1, 0, v)
  \/ WizardRetry
  \/ \E i \in 1..MaxCalls, ok \in BOOLEAN, acc \in StorageModes :
       CreateQuizInsertQuiz(i, ok, acc)
  \/ \E i \in 1..MaxCalls, ok \in BOOLEAN : CreateQuizInsertQuestions(i, ok)

SpecCreate == InitCreate /\ [][NextCreate]_vars

\* ------------------------------------------------------------------------
\* TakeQuizPage: one attempt at a quiz
\* ------------------------------------------------------------------------

\* quizData.timeLimit * 60: minutes to seconds.
SecondsPerMinute == 60

\* The page left for good (a link or router.push).
TakeGone == [mounted |-> FALSE, gone |-> TRUE]

\* The useState initial values and what fetchQuiz sets: the quiz and, with a
\* time limit, the seconds left. pending holds the result handed to a
\* saveQuizResult that has not settled, saves counts the invocations.
TakeLoaded(r) ==
  [mounted |-> TRUE,
   loaded |-> r.kind = "quiz",
   quiz |-> IF r.kind = "quiz" THEN r.quiz ELSE NoQuiz,
   currentQuestionIndex |-> 0,
   answers |-> <<>>,
   showResults |-> FALSE,
   timeLeft |-> IF r.kind = "quiz" /\ OrUndefined(r.quiz.timeLimit) # <<>>
                THEN <<r.quiz.timeLimit[1] * SecondsPerMinute>> ELSE <<>>,
   isSubmitting |-> FALSE,
   isPaused |-> FALSE,
   showStartScreen |-> TRUE,
   userName |-> <<>>,
   pending |-> <<>>,
   saves |-> 0]

\* Which of the screens the render returns.
OnStartScreen == take.mounted /\ take.loaded /\ take.showStartScreen

OnResults ==
  take.mounted /\ take.loaded /\ ~take.showStartScreen /\ take.showResults

OnQuizScreen ==
  take.mounted /\ take.loaded /\ ~take.showStartScreen /\ ~take.showResults

\* The page is opened and fetchQuiz settles.
MountTake(id, ok, acc) ==
  /\ take = TakeIdle
  /\ take' = TakeLoaded(GetQuizByIdResult(remote, localStore, id, ok, acc))
  /\ lastOp' = [op |-> "mount"]
  /\ UNCHANGED <<wizardVars, storeVars>>

SetUserName(v) ==
  /\ OnStartScreen
  /\ take' = [take EXCEPT !.userName = v]
  /\ lastOp' = [op |-> "take"]
  /\ UNCHANGED <<wizardVars, storeVars>>

\* handleStartQuiz: without a name only the name error is shown. The render
\* of the quiz screen reads quiz.questions[currentQuestionIndex].id: for a
\* quiz without questions that throws and the page is unmounted.
HandleStartQuiz ==
  /\ OnStartScreen
  /\ take' = IF Blank(take.userName) THEN take
             ELSE IF take.quiz.questions = <<>>
             THEN [take EXCEPT !.showStartScreen = FALSE, !.mounted = FALSE]
             ELSE [take EXCEPT !.showStartScreen = FALSE]
  /\ lastOp' = IF ~Blank(take.userName) /\ take.quiz.questions = <<>>
               THEN [op |-> "renderError"] ELSE [op |-> "take"]
  /\ UNCHANGED <<wizardVars, storeVars>>

HandlePauseToggle ==
  /\ OnQuizScreen
  /\ take' = [take EXCEPT !.isPaused = ~@]
  /\ lastOp' = [op |-> "take"]
  /\ UNCHANGED <<wizardVars, storeVars>>

CurrentQuestion == take.quiz.questions[take.currentQuestionIndex + 1]

\* A handleAnswerSelect that records the answer whether paused or not.
HandleAnswerSelectPaused(answerIndex) ==
  /\ OnQuizScreen
  /\ take' = [take EXCEPT !.answers =
                [x \in DOMAIN @ \cup {CurrentQuestion.id} |->
                   IF x = CurrentQuestion.id THEN answerIndex ELSE @[x]]]
  /\ lastOp' = [op |-> "answer"]
  /\ UNCHANGED <<wizardVars, storeVars>>

\* handleAnswerSelect(currentQuestion.id, answerIndex): returns at once
\* while paused.
HandleAnswerSelect(answerIndex) ==
  /\ OnQuizScreen
  /\ take' = IF take.isPaused THEN take
             ELSE [take EXCEPT !.answers =
                     [x \in DOMAIN @ \cup {CurrentQuestion.id} |->
                        IF x = CurrentQuestion.id THEN answerIndex ELSE @[x]]]
  /\ lastOp' = [op |-> "answer"]
  /\ UNCHANGED <<wizardVars, storeVars>>

\* handleNextQuestion: returns at once while paused, and does nothing on
\* the last question.
HandleNextQuestion ==
  /\ OnQuizScreen
  /\ take' = IF \/ take.isPaused
                \/ ~(take.currentQuestionIndex < Len(take.quiz.questions) - 1)
             THEN take
             ELSE [take EXCEPT !.currentQuestionIndex = @ + 1]
  /\ lastOp' = [op |-> "next"]
  /\ UNCHANGED <<wizardVars, storeVars>>

\* handlePrevQuestion: does nothing on the first question or while paused.
HandlePrevQuestion ==
  /\ OnQuizScreen
  /\ take' = IF take.currentQuestionIndex > 0 /\ ~take.isPaused
             THEN [take EXCEPT !.currentQuestionIndex = @ - 1]
             ELSE take
  /\ lastOp' = [op |-> "prev"]
  /\ UNCHANGED <<wizardVars, storeVars>>

\* A score that counts every answered question.
CalculateScoreAnswered(quiz, answers) ==
  Cardinality({k \in 1..Len(quiz.questions) :
                 quiz.questions[k].id \in DOMAIN answers})

\* calculateScore
CalculateScore(quiz, answers) ==
  Cardinality({k \in 1..Len(quiz.questions) :
                 /\ quiz.questions[k].id \in DOMAIN answers
                 /\ answers[quiz.questions[k].id] = quiz.questions[k].correctAnswer})

\* A handleFinishQuiz that does not look at isSubmitting.
FinishQuizStartUnguarded(t) ==
  [t EXCEPT !.isSubmitting = TRUE,
            !.pending = <<[quizId |-> t.quiz.id,
                           score |-> CalculateScore(t.quiz, t.answers),
                           totalQuestions |-> Len(t.quiz.questions),
                           completedAt |-> 1]>>,
            !.saves = @ + 1]

\* handleFinishQuiz up to the await of saveQuizResult; it returns at once
\* while isSubmitting is set.
FinishQuizStart(t) ==
  IF t.isSubmitting THEN t
  ELSE [t EXCEPT !.isSubmitting = TRUE,
                 !.pending = <<[quizId |-> t.quiz.id,
                                score |-> CalculateScore(t.quiz, t.answers),
                                totalQuestions |-> Len(t.quiz.questions),
                                completedAt |-> 1]>>,
                 !.saves = @ + 1]

\* A click on Submit Quiz or Finish Quiz (disabled while submitting or
\* paused).
HandleFinishQuiz ==
  /\ OnQuizScreen
  /\ ~take.isSubmitting /\ ~take.isPaused
  /\ take' = FinishQuizStart(take)
  /\ lastOp' = [op |-> "finish"]
  /\ UNCHANGED <<wizardVars, storeVars>>

\* A countdown whose end submits nothing.
TimerTickNoSubmit ==
  /\ take.mounted
  /\ take.timeLeft # <<>>
  /\ take.timeLeft[1] > 0
  /\ ~take.isPaused /\ ~take.showStartScreen
  /\ take' = [take EXCEPT !.timeLeft = <<@[1] - 1>>]
  /\ lastOp' = [op |-> "tick", autoSubmit |-> FALSE]
  /\ UNCHANGED <<wizardVars, storeVars>>

\* One second of the interval set by the timer effect; the effect on
\* timeLeft === 0 then calls handleFinishQuiz.
TimerTick ==
  /\ take.mounted
  /\ take.timeLeft # <<>>
  /\ take.timeLeft[1] > 0
  /\ ~take.isPaused /\ ~take.showStartScreen
  /\ LET t == [take EXCEPT !.timeLeft = <<@[1] - 1>>]
     IN take' = IF t.timeLeft = <<0>> THEN FinishQuizStart(t) ELSE t
  /\ lastOp' = [op |-> "tick",
                autoSubmit |-> take.timeLeft = <<1>> /\ ~take.isSubmitting]
  /\ UNCHANGED <<wizardVars, storeVars>>

\* saveQuizResult settles and handleFinishQuiz runs to its end.
FinishQuizDone(ok, acc) ==
  /\ "pending" \in DOMAIN take
  /\ take.pending # <<>>
  /\ LET e == SaveQuizResultEffect(remote, localStore, take.pending[1],
                                   nextId + 1, ok, acc)
     IN /\ remote' = e.rem
        /\ localStore' = e.ls
        /\ nextId' = nextId + 1
        /\ returned' = Append(returned, [op |-> "saveQuizResult",
                                         outcome |-> e.outcome,
                                         result |-> take.pending[1]])
        /\ lastOp' = [op |-> "saveQuizResult", result |-> take.pending[1],
                      remoteOk |-> ResultInsertOk(remote, take.pending[1], ok),
                      acc |-> acc, outcome |-> e.outcome]
  /\ take' = IF take.mounted
             THEN [take EXCEPT !.showResults = TRUE, !.isSubmitting = FALSE,
                               !.pending = <<>>]
             ELSE TakeGone
  /\ UNCHANGED <<wizardVars, calls>>

\* A link or router.push leaves the page; a save on its way still settles.
LeaveTake ==
  /\ take.mounted
  /\ take' = IF take.pending = <<>> THEN TakeGone
             ELSE [take EXCEPT !.mounted = FALSE]
  /\ lastOp' = [op |-> "leave"]
  /\ UNCHANGED <<wizardVars, storeVars>>

\* The stores before the attempt, as createQuiz leaves them: in the remote
\* store sample quiz A with its questions and a quiz whose question insert
\* failed, in the local list sample quiz B.
TakeRemote ==
  [RemoteInit EXCEPT
     !.quizzes = <<[id |-> DbId(1), title |-> <<"A">>,
                    description |-> <<"d", "A">>, category |-> <<"c">>,
                    time_limit |-> <<1>>],
                   [id |-> DbId(3), title |-> <<"B">>,
                    description |-> <<"d", "B">>, category |-> <<>>,
                    time_limit |-> <<>>]>>,
     !.questions = QuestionRows(DbId(1), <<1, 2>>, SampleHeap)]

TakeLocalQuizzes ==
  LSArray(<<[id |-> Uuid(2), title |-> <<"B">>, description |-> <<"d", "B">>,
             category |-> <<>>, timeLimit |-> <<>>,
             questions |-> QuestionValues(<<2>>, SampleHeap)]>>)

\* Quiz ids the page is opened with; Uuid(0) is in neither store.
TakeIds == {DbId(1), Uuid(2), DbId(3), Uuid(0)}

\* Names typed on the start screen, answers clicked.
NameValues == {<<>>, <<"n">>}

AnswerChoices == {0, 2}

InitTake ==
  /\ wizard = WizardInit
  /\ heap = SampleHeap
  /\ srcBlocks = <<>>
  /\ remote = TakeRemote
  /\ \E v \in {LSMissing, LSGarbage} :
       localStore = [localQuizzes |-> TakeLocalQuizzes, quizHistory |-> v]
  /\ nextId = 3
  /\ calls = <<>>
  /\ take = TakeIdle
  /\ returned = <<>>
  /\ lastOp = [op |-> "init"]

NextTake ==
  \/ \E id \in TakeIds, ok \in BOOLEAN, acc \in ReadModes : MountTake(id, ok, acc)
  \/ \E v \in NameValues : SetUserName(v)
  \/ HandleStartQuiz
  \/ HandlePauseToggle
  \/ \E a \in AnswerChoices : HandleAnswerSelect(a)
  \/ HandleNextQuestion
  \/ HandlePrevQuestion
  \/ HandleFinishQuiz
  \/ TimerTick
  \/ \E ok \in BOOLEAN, acc \in StorageModes : FinishQuizDone(ok, acc)
  \/ LeaveTake

SpecTake == InitTake /\ [][NextTake]_vars

\* The promise of saveQuizResult settles: every branch of it returns, and
\* the client of the remote store answers or fails.
SpecTakeFair ==
  InitTake /\ [][NextTake]_vars
    /\ WF_vars(\E ok \in BOOLEAN, acc \in StorageModes : FinishQuizDone(ok, acc))

\* ------------------------------------------------------------------------
\* The creation page submitting while an attempt at a quiz runs
\* ------------------------------------------------------------------------

\* A timed quiz an earlier session stored in the local list.
EarlierQuiz ==
  [id |-> Uuid(0), title |-> <<"A">>, description |-> <<"d", "A">>,
   category |-> <<"c">>, timeLimit |-> <<1>>,
   questions |-> QuestionValues(<<1, 2>>, SampleHeap)]

\* The wizard on step 2 with title, description and its one question filled
\* in; the take page not opened yet.
InitPages ==
  /\ wizard = [WizardInit EXCEPT !.title = <<"T">>, !.description = <<"d">>,
                                 !.currentStep = 2]
  /\ heap = <<SampleHeap[1]>>
  /\ srcBlocks = <<>>
  /\ remote = RemoteInit
  /\ localStore = [localQuizzes |-> LSArray(<<EarlierQuiz>>),
                   quizHistory |-> LSMissing]
  /\ nextId = 0
  /\ calls = <<>>
  /\ take = TakeIdle
  /\ returned = <<>>
  /\ lastOp = [op |-> "init"]

\* The clicks on Create Quiz and the responses to createQuiz, and the
\* attempt with its timer, pause and submission.
NextPages ==
  \/ HandleNextStep2
  \/ \E i \in 1..MaxCalls, ok \in BOOLEAN, acc \in StorageModes :
       CreateQuizInsertQuiz(i, ok, acc)
  \/ \E i \in 1..MaxCalls, ok \in BOOLEAN : CreateQuizInsertQuestions(i, ok)
  \/ \E ok \in BOOLEAN : MountTake(Uuid(0), ok, "ok")
  \/ SetUserName(<<"n">>)
  \/ HandleStartQuiz
  \/ HandlePauseToggle
  \/ HandleFinishQuiz
  \/ TimerTick
  \/ \E ok \in BOOLEAN, acc \in StorageModes : FinishQuizDone(ok, acc)

SpecPages == InitPages /\ [][NextPages]_vars

\* ------------------------------------------------------------------------
\* Properties of the bulk parser (SpecParser)
\* ------------------------------------------------------------------------

\* The typed lines of block k, trimmed.
SrcLines(k) == [i \in 1..Len(srcBlocks[k]) |-> Trim(srcBlocks[k][i])]

\* The typed option lines of block k after enumerator stripping.
SrcOptions(k) == [i \in 1..4 |-> OptionTextOf(SrcLines(k)[i + 1])]

\* Every typed block has a question line and at least four more lines.
WellFormedText ==
  /\ Len(srcBlocks) >= 1
  /\ \A k \in 1..Len(srcBlocks) : Len(srcBlocks[k]) >= 5

\* The parse button ran on the current text and reported no error.
ParsedOk ==
  /\ lastOp.op = "parse"
  /\ wizard.parsingError = NoError
  /\ wizard.showParsingPreview

Question(k) == heap[wizard.questions[k]]

\* Indices 0..3 of the stripped options of block k that carry a marker.
MarkedOptions(k) == {i \in 0..3 : HasMarker(SrcOptions(k)[i + 1])}

SetMin(S) == CHOOSE x \in S : \A y \in S : x <= y

NoMarkerLeft(opt) ==
  /\ ~Includes(opt, CorrectLiteral)
  /\ ~Includes(opt, <<"*">>)
  /\ ~Includes(opt, <<CheckMark>>)

\* C4: a text of N >= 1 blank-line-separated blocks of at least 5 lines
\* parses into exactly N questions, the k-th one built from the k-th block:
\* its text from the block's first line, its options from the next four.
C4_OneQuestionPerBlockInOrder ==
  (lastOp.op = "parse" /\ WellFormedText) =>
     /\ ParsedOk
     /\ Len(wizard.questions) = Len(srcBlocks)
     /\ \A k \in 1..Len(srcBlocks) :
          /\ Question(k).text = QuestionTextOf(SrcLines(k)[1])
          /\ Len(Question(k).options) = 4
          /\ \A i \in 1..4 :
               Question(k).options[i] \in
                 {SrcOptions(k)[i], Trim(RemoveMarkers(SrcOptions(k)[i]))}

\* C4 witness: two well-formed blocks were parsed into two questions.
C4_Witness ==
  /\ ParsedOk
  /\ WellFormedText
  /\ Len(srcBlocks) = 2
  /\ Len(wizard.questions) = 2
  /\ Question(1).text # Question(2).text

RECURSIVE FirstShortTyped(_)
FirstShortTyped(k) ==
  IF k > Len(srcBlocks) THEN 0
  ELSE IF Len(srcBlocks[k]) < 5 THEN k ELSE FirstShortTyped(k + 1)

\* C5: when some block has fewer than 5 lines the parse fails with the error
\* naming that block (1-based, the first such block) and leaves the questions
\* held before the call, and the preview flag, as they were.
C5_ShortBlockFailsWholeParse ==
  [][(lastOp'.op = "parse" /\ FirstShortTyped(1) > 0) =>
        /\ wizard'.parsingError = <<"block", FirstShortTyped(1)>>
        /\ QuestionsOf(wizard', heap') = QuestionsOf(wizard, heap)
        /\ wizard'.showParsingPreview = wizard.showParsingPreview]_vars

\* C5 witness: the second block is short, the error names block 2, and the
\* two questions of an earlier parse are still held.
C5_Witness ==
  /\ lastOp.op = "parse"
  /\ wizard.parsingError = <<"block", 2>>
  /\ Len(srcBlocks[1]) >= 5
  /\ Len(wizard.questions) = 2

\* C6: correctAnswer of each parsed block is the smallest index in 0..3 whose
\* stripped option contains '(correct)' or '*' or ends with the check mark,
\* and 0 when no option carries a marker.
C6_FirstMarkedOptionIsCorrect ==
  ParsedOk =>
    \A k \in 1..Len(srcBlocks) :
      Question(k).correctAnswer =
        IF MarkedOptions(k) = {} THEN 0 ELSE SetMin(MarkedOptions(k))

\* C6 witness: a parsed block with two marked options, the first of them not
\* at index 0.
C6_Witness ==
  /\ ParsedOk
  /\ \E k \in 1..Len(srcBlocks) :
       /\ Cardinality(MarkedOptions(k)) >= 2
       /\ Question(k).correctAnswer = SetMin(MarkedOptions(k))
       /\ Question(k).correctAnswer > 0

\* C7: in each parsed block with a marked option, the option recorded as
\* correct holds no '(correct)', '*' or check mark any more, and the other
\* three options are the typed lines after enumerator stripping.
C7_MarkerRemovedFromCorrectOption ==
  ParsedOk =>
    \A k \in 1..Len(srcBlocks) :
      MarkedOptions(k) # {} =>
        /\ NoMarkerLeft(Question(k).options[Question(k).correctAnswer + 1])
        /\ \A i \in 1..4 :
             i # Question(k).correctAnswer + 1 =>
               Question(k).options[i] = SrcOptions(k)[i]

\* C8: every question of a successful parse has exactly 4 options and a
\* correctAnswer in 0..3, and equals the question parsed from the first five
\* lines of its block: lines beyond the fifth are ignored.
C8_FourOptionsValidIndex ==
  ParsedOk =>
    \A k \in 1..Len(wizard.questions) :
      /\ Len(Question(k).options) = 4
      /\ Question(k).correctAnswer \in 0..3
      /\ Question(k) = ParseBlock(Take(SrcLines(k), 5), k - 1)

\* C8 witness: a block of six lines was parsed.
C8_Witness ==
  /\ ParsedOk
  /\ \E k \in 1..Len(srcBlocks) : Len(srcBlocks[k]) = 6

\* ------------------------------------------------------------------------
\* Properties of the creation flow (SpecCreate)
\* ------------------------------------------------------------------------

\* A question with a non-empty text and exactly 4 non-empty options.
QuestionFilled(q) ==
  /\ q.text # <<>>
  /\ Len(q.options) = 4
  /\ \A j \in 1..Len(q.options) : q.options[j] # <<>>

AllFilled(qs) == \A k \in 1..Len(qs) : QuestionFilled(qs[k])

\* C9: the creation flow enters createQuiz only with a quiz whose questions
\* all have a non-empty text and exactly 4 non-empty options, and no
\* question with an empty text or an empty option is ever held by the
\* remote questions table or by the local quiz list.
C9_OnlyFilledQuestionsReachStores ==
  /\ lastOp.op = "createQuiz.start"
       => AllFilled(QuestionValues(calls[Len(calls)].questions, heap))
  /\ AllFilled(remote.questions)
  /\ localStore.localQuizzes.tag = "array"
       => \A i \in 1..Len(localStore.localQuizzes.items) :
            AllFilled(localStore.localQuizzes.items[i].questions)

\* C14: handleCreateQuiz calls createQuiz at most 2 times per submission;
\* the second call is made only from the delay that follows a call that
\* raised; a call that returns an id ends the loop (success toast, page
\* left, no call pending); and the failure is reported only when the second
\* call has raised too.
C14_RetryLoop ==
  /\ [](wizard.attempts <= 2)
  /\ [](wizard.createPc = "navigated" => calls = <<>>)
  /\ [][(lastOp'.op = "createQuiz.start" /\ wizard'.attempts > 1)
          => /\ wizard.createPc = "delay"
             /\ wizard.attempts = 1
             /\ returned # <<>>
             /\ returned[Len(returned)].outcome.kind = "raise"]_vars
  /\ [][(lastOp'.op = "createQuiz" /\ lastOp'.outcome.kind = "id")
          => /\ wizard'.createPc = "navigated"
             /\ wizard'.toast = "success"
             /\ calls' = <<>>]_vars
  /\ [][(wizard'.toast = "error" /\ wizard.toast # "error")
          => /\ lastOp'.op = "createQuiz"
             /\ lastOp'.outcome.kind = "raise"
             /\ wizard.attempts = 2
             /\ Len(returned') >= 2
             /\ returned'[Len(returned') - 1].outcome.kind = "raise"]_vars

\* The failure was reported after two calls.
C14_Witness ==
  /\ wizard.toast = "error"
  /\ wizard.attempts = 2
  /\ lastOp.op = "createQuiz"

\* C15: the quiz of a submission is written to the local quiz list only
\* after the remote creation has been tried again, that is not before the
\* second createQuiz call of the submission.
C15_LocalInsertAfterRemoteRetry ==
  [][localStore'.localQuizzes # localStore.localQuizzes
       => wizard.attempts >= 2]_vars

\* C29: in automatic mode the wizard goes from step 1 to step 2 only when
\* the bulk text parsed: a Next on step 1 whose text does not parse leaves
\* the wizard on step 1 with the parse error.
C29_AdvanceOnlyAfterParse ==
  [][(/\ wizard.currentStep = 1
      /\ wizard'.currentStep = 2
      /\ wizard.parsingMethod = "automatic")
       => /\ ParseResult(wizard.bulkText).ok
          /\ wizard'.parsingError = NoError]_vars

\* The copies of quizzes the two stores hold.
StoredCopies ==
  Len(remote.quizzes)
    + (IF localStore.localQuizzes.tag = "array"
       THEN Len(localStore.localQuizzes.items) ELSE 0)

LocalCreates ==
  {k \in 1..Len(returned) : /\ returned[k].op = "createQuiz"
                            /\ returned[k].outcome.kind = "id"
                            /\ returned[k].outcome.path = "local"}

\* C1: a createQuiz whose quiz-row insert failed returns an id (the local
\* list being absent, unreadable or a list), and a later getQuizById with
\* that id, localStorage readable, returns that quiz from the local list.
C1_LocalFallbackRetrievable ==
  /\ (/\ lastOp.op = "createQuiz"
      /\ ~lastOp.remoteRow
      /\ localStore.localQuizzes.tag # "nonarray")
       => lastOp.outcome.kind = "id"
  /\ lastOp.op = "getQuizById" /\ lastOp.acc = "ok"
       => \A k \in LocalCreates :
            returned[k].outcome.id = lastOp.id
              => /\ lastOp.outcome.kind = "quiz"
                 /\ lastOp.outcome.from = "local"
                 /\ lastOp.outcome.quiz =
                      [id |-> lastOp.id, title |-> returned[k].title,
                       description |-> returned[k].description,
                       category |-> returned[k].category,
                       timeLimit |-> OrUndefined(returned[k].timeLimit),
                       questions |-> returned[k].questions]

\* The local history list holds an entry with this id.
InLocalHistory(id) ==
  /\ localStore.quizHistory.tag = "array"
  /\ \E k \in 1..Len(localStore.quizHistory.items) :
       localStore.quizHistory.items[k].id = id

\* C2: saveQuizResult returns the id of the inserted row when the remote
\* insert succeeded; otherwise it returns a fresh local id when the result
\* was appended to the local history and null when it was not. It never
\* raises.
C2_SaveResultOutcome ==
  lastOp.op = "saveQuizResult"
    => /\ lastOp.outcome.kind \in {"id", "null"}
       /\ lastOp.remoteOk
            => /\ lastOp.outcome.kind = "id"
               /\ lastOp.outcome.id = DbId(nextId)
               /\ \E k \in 1..Len(remote.results) :
                    remote.results[k].id = DbId(nextId)
       /\ ~lastOp.remoteOk
            => IF InLocalHistory(Uuid(nextId))
               THEN lastOp.outcome.kind = "id" /\ lastOp.outcome.id = Uuid(nextId)
               ELSE lastOp.outcome.kind = "null"

\* C10: getAllQuizzes returns the remote quizzes (none when the remote
\* fetch failed) followed by the local list (nothing when it is missing,
\* unreadable or no list).
C10_RemoteThenLocal ==
  lastOp.op = "getAllQuizzes"
    => lastOp.outcome =
         (IF lastOp.ok THEN FormattedRemoteQuizzes(remote) ELSE <<>>)
         \o (IF lastOp.acc = "ok" /\ localStore.localQuizzes.tag = "array"
             THEN localStore.localQuizzes.items ELSE <<>>)

\* The quiz rows of the remote store with this id.
RemoteRowsWithId(id) ==
  {k \in 1..Len(remote.quizzes) : remote.quizzes[k].id = id}

\* The entries of the local quiz list with this id, as a lookup in storage
\* mode acc sees them.
LocalEntriesWithId(id, acc) ==
  IF acc = "ok" /\ localStore.localQuizzes.tag = "array"
  THEN {k \in 1..Len(localStore.localQuizzes.items) :
          localStore.localQuizzes.items[k].id = id}
  ELSE {}

\* C11: getQuizById returns the remote quiz when the remote fetch succeeds
\* with data; otherwise the local quiz with that id when the local list
\* holds one; and it raises exactly when neither yields the id, always with
\* the not-found error.
C11_RemoteThenLocalThenNotFound ==
  lastOp.op = "getQuizById"
    => LET fromRemote == lastOp.ok /\ RemoteRowsWithId(lastOp.id) # {}
           locals == LocalEntriesWithId(lastOp.id, lastOp.acc)
       IN /\ fromRemote
               => /\ lastOp.outcome.kind = "quiz"
                  /\ lastOp.outcome.from = "remote"
                  /\ lastOp.outcome.quiz.id = lastOp.id
                  /\ \E k \in RemoteRowsWithId(lastOp.id) :
                       lastOp.outcome.quiz.title = remote.quizzes[k].title
          /\ ~fromRemote /\ locals # {}
               => /\ lastOp.outcome.kind = "quiz"
                  /\ lastOp.outcome.from = "local"
                  /\ \E k \in locals :
                       lastOp.outcome.quiz = localStore.localQuizzes.items[k]
          /\ lastOp.outcome.kind = "raise"
               <=> ~fromRemote /\ locals = {}
          /\ lastOp.outcome.kind = "raise"
               => lastOp.outcome.error = "Quiz not found"

\* A lookup with the remote fetch failing is answered from the local list.
C11_Witness ==
  /\ lastOp.op = "getQuizById"
  /\ ~lastOp.ok
  /\ lastOp.outcome.kind = "quiz"
  /\ lastOp.outcome.from = "local"

\* C12: a createQuiz whose quiz-row insert succeeded and whose question
\* insert failed returns the id of the quiz row, does not raise, leaves the
\* quiz row in the remote store and leaves the local store as it was.
C12_QuestionInsertFailureKeepsQuiz ==
  [][(/\ lastOp'.op = "createQuiz"
      /\ lastOp'.remoteRow
      /\ ~lastOp'.questionsOk)
       => /\ lastOp'.outcome.kind = "id"
          /\ \E k \in 1..Len(remote'.quizzes) :
               remote'.quizzes[k].id = lastOp'.outcome.id
          /\ remote'.quizzes = remote.quizzes
          /\ localStore' = localStore]_vars

\* createQuiz returned the id of a quiz row that has no question rows.
C12_Witness ==
  /\ lastOp.op = "createQuiz"
  /\ lastOp.remoteRow
  /\ ~lastOp.questionsOk
  /\ RemoteRowsWithId(lastOp.outcome.id) # {}
  /\ RowsOfQuiz(remote, lastOp.outcome.id) = <<>>

LocalHistoryEntries(acc) ==
  IF acc # "denied" /\ localStore.quizHistory.tag = "array"
  THEN localStore.quizHistory.items ELSE <<>>

\* The fields of a history entry that a saved result carries.
ResultFields(e) ==
  [id |-> e.id, quizId |-> e.quizId, score |-> e.score,
   totalQuestions |-> e.totalQuestions, completedAt |-> e.completedAt]

\* The rows of quiz_results as history entries carry them.
RemoteResultFields ==
  [k \in 1..Len(remote.results) |->
     [id |-> remote.results[k].id, quizId |-> remote.results[k].quiz_id,
      score |-> remote.results[k].score,
      totalQuestions |-> remote.results[k].total_questions,
      completedAt |-> remote.results[k].completed_at]]

\* items holds exactly the entries of source, each once, in some order.
SameEntries(items, source) ==
  /\ Len(items) = Len(source)
  /\ \E p \in Permutations(1..Len(source)) :
       \A k \in 1..Len(source) : ResultFields(items[p[k]]) = source[k]

\* No entry comes before one completed later.
NewestFirst(items) ==
  \A i, j \in 1..Len(items) :
    i < j => items[i].completedAt >= items[j].completedAt

\* C16: getQuizHistory returns the rows of the remote store when the remote
\* read succeeds with at least one row; otherwise (remote failure or no
\* remote row) it returns exactly the entries of the local history list,
\* newest completion first.
C16_HistoryRemoteElseLocalSorted ==
  lastOp.op = "getQuizHistory"
    => /\ lastOp.outcome.kind = "list"
       /\ IF lastOp.ok /\ remote.results # <<>>
          THEN SameEntries(lastOp.outcome.items, RemoteResultFields)
          ELSE /\ SameEntries(lastOp.outcome.items, LocalHistoryEntries(lastOp.acc))
               /\ NewestFirst(lastOp.outcome.items)

\* With the remote read failing, a local list stored oldest first comes
\* back newest first.
C16_Witness ==
  /\ lastOp.op = "getQuizHistory"
  /\ ~lastOp.ok
  /\ Len(LocalHistoryEntries(lastOp.acc)) >= 2
  /\ LocalHistoryEntries(lastOp.acc)[1].completedAt
       < LocalHistoryEntries(lastOp.acc)[2].completedAt
  /\ lastOp.outcome.items[1].completedAt > lastOp.outcome.items[2].completedAt

\* The k-th lookup of a getQuizHistory finds the quiz of the k-th stored
\* entry, in the remote store or in the local quiz list.
LookupResolves(k) ==
  LET quizId == LocalHistoryEntries(lastOp.acc)[k].quizId
  IN \/ lastOp.lk[k] /\ RemoteRowsWithId(quizId) # {}
     \/ LocalEntriesWithId(quizId, lastOp.acc) # {}

\* The titles and categories the stores hold for a quiz id.
StoredTitleCategory(quizId, acc) ==
  {<<remote.quizzes[k].title, remote.quizzes[k].category>> :
     k \in RemoteRowsWithId(quizId)}
  \cup {<<localStore.localQuizzes.items[k].title,
          localStore.localQuizzes.items[k].category>> :
          k \in LocalEntriesWithId(quizId, acc)}

\* C17: when getQuizHistory answers from the local list, an entry whose
\* quiz getQuizById cannot resolve carries the title 'Unknown Quiz' and no
\* category, and the failed lookup neither fails the call nor removes or
\* alters another entry: every stored entry is returned with its own
\* fields, and the resolved ones carry the title and category of their quiz.
C17_UnresolvedKeepPlaceholders ==
  (/\ lastOp.op = "getQuizHistory"
   /\ ~(lastOp.ok /\ remote.results # <<>>))
    => LET stored == LocalHistoryEntries(lastOp.acc)
           items == lastOp.outcome.items
       IN /\ lastOp.outcome.kind = "list"
          /\ Len(items) = Len(stored)
          /\ \A k \in 1..Len(stored) :
               \E j \in 1..Len(items) :
                 /\ ResultFields(items[j]) = stored[k]
                 /\ IF LookupResolves(k)
                    THEN <<items[j].quizTitle, items[j].category>>
                           \in StoredTitleCategory(stored[k].quizId, lastOp.acc)
                    ELSE /\ items[j].quizTitle = UnknownQuiz
                         /\ items[j].category = <<>>

\* A local history with one entry whose quiz is resolved and one whose quiz
\* is not comes back whole.
C17_Witness ==
  /\ lastOp.op = "getQuizHistory"
  /\ ~(lastOp.ok /\ remote.results # <<>>)
  /\ Len(lastOp.outcome.items) >= 2
  /\ \E k \in 1..Len(LocalHistoryEntries(lastOp.acc)) : LookupResolves(k)
  /\ \E k \in 1..Len(LocalHistoryEntries(lastOp.acc)) : ~LookupResolves(k)
  /\ \E j \in 1..Len(lastOp.outcome.items) :
       lastOp.outcome.items[j].quizTitle = UnknownQuiz
  /\ \E j \in 1..Len(lastOp.outcome.items) :
       lastOp.outcome.items[j].quizTitle # UnknownQuiz

\* The local history cannot be read as a list: nothing is stored, the
\* stored text does not parse or is no array, or localStorage throws.
LocalHistoryUnreadable(acc) ==
  acc = "denied" \/ localStore.quizHistory.tag # "array"

\* C18: getQuizHistory never raises; when the remote read fails and the
\* local history is missing or unreadable it returns the empty list.
C18_HistoryNeverRaises ==
  lastOp.op = "getQuizHistory"
    => /\ lastOp.outcome.kind = "list"
       /\ (~lastOp.ok /\ LocalHistoryUnreadable(lastOp.acc))
            => lastOp.outcome.items = <<>>

\* The remote read failed and the stored history does not parse.
C18_Witness ==
  /\ lastOp.op = "getQuizHistory"
  /\ ~lastOp.ok
  /\ localStore.quizHistory.tag = "garbage"
  /\ lastOp.outcome = [kind |-> "list", items |-> <<>>]

\* The createQuiz calls that settled with an id, as indices into the
\* history.
AcceptedCreates ==
  {k \in 1..Len(returned) : /\ returned[k].op = "createQuiz"
                            /\ returned[k].outcome.kind = "id"}

\* The quiz a getQuizById returned has the title, the description and,
\* question by question, the options and the correct answer of the quiz
\* the k-th call handed to createQuiz.
SameContent(quiz, k) ==
  /\ quiz.title = returned[k].title
  /\ quiz.description = returned[k].description
  /\ Len(quiz.questions) = Len(returned[k].questions)
  /\ \A q \in 1..Len(returned[k].questions) :
       /\ quiz.questions[q].options = returned[k].questions[q].options
       /\ quiz.questions[q].correctAnswer = returned[k].questions[q].correctAnswer

\* C19: for every createQuiz that returned an id, a later getQuizById with
\* that id (both stores answering) returns a quiz with the same title and
\* description and, question by question in the same order, the same
\* options and correctAnswer, whichever store took the quiz and whether or
\* not the remote question insert succeeded.
C19_CreateThenGetRoundTrip ==
  (/\ lastOp.op = "getQuizById"
   /\ lastOp.ok
   /\ lastOp.acc = "ok")
    => \A k \in AcceptedCreates :
         returned[k].outcome.id = lastOp.id
           => /\ lastOp.outcome.kind = "quiz"
              /\ SameContent(lastOp.outcome.quiz, k)

\* C20: no error of the remote store comes out of getAllQuizzes,
\* getQuizById, createQuiz, saveQuizResult or getQuizHistory. A remote
\* failure leads to the local fallback or is only logged: getAllQuizzes,
\* saveQuizResult and getQuizHistory never raise, getQuizById raises only
\* 'Quiz not found' and only for an id it finds in neither store, and
\* createQuiz raises only out of its local fallback, when the stored local
\* list cannot take the quiz.
C20_NoRemoteErrorPropagates ==
  /\ lastOp.op = "getAllQuizzes"
       => Len(lastOp.outcome)
            <= Len(remote.quizzes) + Len(localStore.localQuizzes.items)
  /\ lastOp.op = "getQuizById"
       => /\ lastOp.outcome.kind \in {"quiz", "raise"}
          /\ lastOp.outcome.kind = "raise"
               => /\ lastOp.outcome.error = "Quiz not found"
                  /\ ~(lastOp.ok /\ RemoteRowsWithId(lastOp.id) # {})
                  /\ LocalEntriesWithId(lastOp.id, lastOp.acc) = {}
  /\ lastOp.op = "createQuiz"
       => /\ lastOp.outcome.kind \in {"id", "raise"}
          /\ lastOp.remoteRow => lastOp.outcome.kind = "id"
          /\ lastOp.outcome.kind = "raise"
               => /\ ~lastOp.remoteRow
                  /\ lastOp.acc # "denied"
                  /\ localStore.localQuizzes.tag = "nonarray"
          /\ (~lastOp.remoteRow /\ localStore.localQuizzes.tag # "nonarray")
               => lastOp.outcome.kind = "id"
  /\ lastOp.op = "saveQuizResult" => lastOp.outcome.kind \in {"id", "null"}
  /\ lastOp.op = "getQuizHistory" => lastOp.outcome.kind = "list"

\* A result whose remote insert failed is saved locally and its id is
\* returned.
C20_Witness ==
  /\ lastOp.op = "saveQuizResult"
  /\ ~lastOp.remoteOk
  /\ lastOp.outcome.kind = "id"
  /\ lastOp.outcome.path = "local"
  /\ InLocalHistory(lastOp.outcome.id)

\* The saveQuizResult calls that returned an id, as indices into the
\* history.
SavedResults ==
  {k \in 1..Len(returned) : /\ returned[k].op = "saveQuizResult"
                            /\ returned[k].outcome.kind = "id"}

\* C25: every result for which saveQuizResult returned an id is among the
\* entries of every later getQuizHistory, whichever store took the result
\* and whether or not the remote store answers, and whatever it holds, at
\* the time of the listing.
C25_SavedResultsAreListed ==
  lastOp.op = "getQuizHistory"
    => \A k \in SavedResults :
         \E j \in 1..Len(lastOp.outcome.items) :
           /\ lastOp.outcome.items[j].id = returned[k].outcome.id
           /\ lastOp.outcome.items[j].quizId = returned[k].result.quizId
           /\ lastOp.outcome.items[j].score = returned[k].result.score

\* The list stored under key keeps its entries, in place, over a step.
EntriesKept(key) ==
  localStore[key].tag = "array"
    => /\ localStore'[key].tag = "array"
       /\ Len(localStore'[key].items) >= Len(localStore[key].items)
       /\ SubSeq(localStore'[key].items, 1, Len(localStore[key].items))
            = localStore[key].items

\* The step adds exactly one entry to the list stored under key.
OneAppended(key) ==
  Len(localStore'[key].items) = Len(localStore[key].items) + 1

\* C27: the local writes only append. No adapter operation removes or
\* rewrites an entry of the local quiz list or of the local history list,
\* and a fallback of createQuiz or of saveQuizResult that finds the stored
\* list readable keeps its entries in place and adds exactly one entry at
\* the end.
C27_LocalWritesAppendOnly ==
  [][/\ EntriesKept("localQuizzes")
     /\ EntriesKept("quizHistory")
     /\ (/\ lastOp'.op = "createQuiz"
         /\ ~lastOp'.remoteRow
         /\ lastOp'.acc # "denied"
         /\ localStore.localQuizzes.tag = "array")
          => OneAppended("localQuizzes")
     /\ (/\ lastOp'.op = "saveQuizResult"
         /\ ~lastOp'.remoteOk
         /\ lastOp'.acc # "denied"
         /\ localStore.quizHistory.tag = "array")
          => OneAppended("quizHistory")]_vars

\* The ids of the entries of the list stored under key.
LocalIds(ls, key) ==
  IF ls[key].tag = "array"
  THEN {ls[key].items[k].id : k \in 1..Len(ls[key].items)}
  ELSE {}

\* C28: in one session the fallbacks of createQuiz and of saveQuizResult
\* read the stored list and write it back in one step, with no suspension
\* in between, so that whatever the interleaving of the pending calls no
\* entry that was written is lost: an id found in a stored list stays in it.
C28_NoLostUpdateInSession ==
  [][/\ LocalIds(localStore, "localQuizzes") \subseteq LocalIds(localStore', "localQuizzes")
     /\ LocalIds(localStore, "quizHistory") \subseteq LocalIds(localStore', "quizHistory")
     /\ (lastOp'.op = "createQuiz" /\ localStore' # localStore)
          => LocalIds(localStore', "localQuizzes")
               = LocalIds(localStore, "localQuizzes") \cup {lastOp'.outcome.id}]_vars

\* The fallback of one createQuiz wrote its quiz while another createQuiz
\* of the session was pending, its own fallback still to come.
C28_Witness ==
  /\ lastOp.op = "createQuiz"
  /\ ~lastOp.remoteRow
  /\ lastOp.outcome.kind = "id"
  /\ lastOp.outcome.id \in LocalIds(localStore, "localQuizzes")
  /\ Len(calls) = 1
  /\ calls[1].pc = "insertQuiz"

\* ------------------------------------------------------------------------
\* Properties of an attempt (SpecTake)
\* ------------------------------------------------------------------------

\* C3: in one attempt saveQuizResult is invoked at most once, whatever the
\* order of submit clicks, pause toggles and timer ticks, also when the
\* countdown reaches zero after the user has submitted.
C3_SavedAtMostOncePerAttempt == take.mounted => take.saves <= 1

\* The countdown of a mounted page.
Counting == take.mounted /\ take.timeLeft # <<>>

\* C21: for a quiz with a time limit the countdown changes only by a tick
\* of the started quiz, which takes exactly one off; it never goes below
\* zero; and when it is at zero a save of the result has been started and,
\* the user doing nothing, the results screen is eventually shown.
C21_CountdownAutoSubmit ==
  /\ [](Counting => take.timeLeft[1] >= 0)
  /\ [][(Counting /\ take'.mounted /\ take'.timeLeft # take.timeLeft)
         => /\ ~take.showStartScreen
            /\ lastOp'.op = "tick"
            /\ take'.timeLeft = <<take.timeLeft[1] - 1>>]_vars
  /\ []((Counting /\ take.timeLeft = <<0>>)
         => /\ take.saves >= 1
            /\ take.pending # <<>> \/ take.showResults)
  /\ (Counting /\ take.timeLeft = <<0>>) ~> (~take.mounted \/ take.showResults)

\* The last second passes with nothing submitted yet and the tick starts
\* the save.
C21_Witness ==
  /\ lastOp.op = "tick"
  /\ lastOp.autoSubmit
  /\ Counting
  /\ take.timeLeft = <<0>>
  /\ take.isSubmitting
  /\ take.pending # <<>>
  /\ take.saves = 1

\* The questions of the quiz on the page whose recorded answer is the
\* correct one.
CorrectlyAnswered ==
  {k \in 1..Len(take.quiz.questions) :
     LET q == take.quiz.questions[k]
     IN \E x \in DOMAIN take.answers :
          x = q.id /\ take.answers[x] = q.correctAnswer}

\* C22: the score handed to saveQuizResult is the number of questions of
\* the quiz whose recorded answer equals the question's correctAnswer at
\* the moment of the submission, with the number of questions as total, so
\* that 0 <= score <= totalQuestions, whatever answers were selected and
\* whatever navigation preceded.
C22_ScoreCountsCorrectAnswers ==
  /\ [][(take.mounted /\ take'.mounted /\ take.pending = <<>> /\ take'.pending # <<>>)
         => /\ take'.pending[1].score = Cardinality(CorrectlyAnswered)
            /\ take'.pending[1].totalQuestions = Len(take.quiz.questions)]_vars
  /\ [](\A k \in 1..Len(returned) :
          returned[k].op = "saveQuizResult"
            => /\ returned[k].result.score >= 0
               /\ returned[k].result.score <= returned[k].result.totalQuestions)

\* A submission with one question answered correctly and one answered
\* wrongly has been handed to saveQuizResult.
C22_Witness ==
  /\ lastOp.op = "saveQuizResult"
  /\ lastOp.result.score = 1
  /\ lastOp.result.totalQuestions = 2
  /\ take.mounted
  /\ Cardinality(DOMAIN take.answers) = 2

\* C24: while the quiz is paused nothing advances: no step, be it a timer
\* tick or a request to select an answer or to go to the next or the
\* previous question, changes the countdown, the answers or the current
\* question index; the resume leaves them as they are too, so the
\* countdown goes on from the value it had when paused.
C24_PausedNothingAdvances ==
  [][(take.mounted /\ take.loaded /\ take.isPaused /\ take'.mounted)
       => /\ take'.timeLeft = take.timeLeft
          /\ take'.answers = take.answers
          /\ take'.currentQuestionIndex = take.currentQuestionIndex]_vars

\* A request made during the pause, with seconds left on the countdown, an
\* answer recorded and the second question shown.
C24_Witness ==
  /\ lastOp.op \in {"answer", "next", "prev"}
  /\ OnQuizScreen
  /\ take.isPaused
  /\ take.timeLeft # <<>>
  /\ take.timeLeft[1] > 0
  /\ take.timeLeft[1] < SecondsPerMinute
  /\ take.currentQuestionIndex = 1
  /\ DOMAIN take.answers # {}

\* C30: while a quiz is being taken the current question index designates
\* one of its questions, 0 <= currentQuestionIndex < number of questions,
\* for every quiz getQuizById returned, the one whose question insert failed
\* included, and after every sequence of next and previous requests.
C30_CurrentQuestionExists ==
  ("loaded" \in DOMAIN take /\ take.loaded /\ ~take.showStartScreen)
    => /\ take.currentQuestionIndex >= 0
       /\ take.currentQuestionIndex < Len(take.quiz.questions)

\* ------------------------------------------------------------------------
\* Properties of the two pages side by side (SpecPages)
\* ------------------------------------------------------------------------

====
